---- MODULE Spec2Model ----
(***************************************************************************)
(* Field-selective structured encoder of yicun/ibuer-go (package log /     *)
(* slog): the value resolver (encode, encodeReflect, encodeStruct,         *)
(* encodeField and its helpers), the tag parser and struct metadata, the   *)
(* serializer registries and the top-level driver MarshalWithOpts.         *)
(*                                                                         *)
(* Go values are modelled as records tagged with their reflect kind in     *)
(* field k.  Pointers, slices and maps are references into a heap          *)
(* (address -> object), so that cyclic object graphs can be written down.  *)
(* String values are sequences of one-character strings; names (field      *)
(* names, emitted keys, registry names) are atoms.                         *)
(***************************************************************************)
EXTENDS Integers, Sequences, FiniteSets, TLC

VARIABLES
    serReg,           \* eager serializer registry: name -> serializer function
    lazySerializers,  \* lazy serializer registry: name -> factory
    input,            \* the value the program marshals, and how
    call,             \* the outcome of the last Marshal call
    maskReg,          \* mask registry: name -> mask function
    fieldCache,       \* fieldCache.m: struct type -> structInfo
    mu,               \* the goroutine holding each mutex for writing, 0: none
    encoderPool,      \* the encoders resting in the sync.Pool
    encoders,         \* the encoder objects allocated so far, by number
    pc,               \* goroutine -> the statement it is at
    loc,              \* goroutine -> the arguments and locals of its call
    events,           \* the factory calls, metadata builds and racing reads so far
    storage           \* the SDebugStorage: its flags, maps, locks and cached snapshot

\* the goroutines' variables, and all variables
threadVars == <<maskReg, fieldCache, mu, encoderPool, encoders, pc, loc, events, storage>>
vars == <<serReg, lazySerializers, input, call, threadVars>>

----------------------------------------------------------------------------
(* Bounds of the model                                                     *)

\* number of heap objects of the object graphs that are encoded
MaxObjs == 2
\* recursion budget: an encode whose descent gets deeper than this never
\* returns (Go aborts the process with a stack overflow)
MaxDepth == 12
\* number of goroutines that call into the package concurrently, each once
NProcs == 3

----------------------------------------------------------------------------
(* Go values                                                               *)

NilV == [k |-> "nil"]                        \* untyped nil (invalid reflect.Value)
StrV(s) == [k |-> "str", s |-> s]
IntV(n) == [k |-> "int", n |-> n]
BoolV(b) == [k |-> "bool", b |-> b]
FloatV(m) == [k |-> "float", m |-> m]        \* m thousandths
PtrV(t, a) == [k |-> "ptr", t |-> t, a |-> a]   \* a = 0: nil pointer of type *t
StructV(t, f) == [k |-> "struct", t |-> t, f |-> f]
SliceV(a) == [k |-> "slice", a |-> a]        \* a = 0: nil slice
MapV(a) == [k |-> "map", a |-> a]            \* a = 0: nil map
IfaceV(v) == [k |-> "iface", v |-> v]        \* interface-typed field or element
ChanV == [k |-> "chan"]

\* heap objects behind slices and maps
ArrObj(e) == [k |-> "arr", e |-> e]
MapObj(keyKind, m) == [k |-> "mapobj", keyKind |-> keyKind, m |-> m]

----------------------------------------------------------------------------
(* Intermediate value tree (encoder.out)                                   *)

Null == [k |-> "null"]
RawMessage(by) == [k |-> "raw", by |-> by]
MapNode(m) == [k |-> "map", m |-> m]
ArrNode(e) == [k |-> "arr", e |-> e]
EmptyMap == [x \in {} |-> Null]
Put(m, key, v) == [x \in (DOMAIN m) \cup {key} |-> IF x = key THEN v ELSE m[x]]

----------------------------------------------------------------------------
(* Errors.  The text of an error is a sequence of pieces; a text contains  *)
(* a phrase when one of its pieces is that phrase.                         *)

NoErr == [e |-> "none"]
ErrLeaf(msg) == [e |-> "leaf", msg |-> msg]
ErrNotFound(name) == [e |-> "notfound", name |-> name]
MarshalError(typ, fld, err) == [e |-> "MarshalError", typ |-> typ, field |-> fld, err |-> err]
ErrPanic(msg) == [e |-> "panic", msg |-> msg]
\* strconv.ParseFloat's *NumError on the string str; toFloat64's
\* fmt.Errorf("cannot convert %T to float64", v)
ErrSyntax(str) == [e |-> "syntax", str |-> str]
ErrConvert(typ) == [e |-> "convert", typ |-> typ]

RECURSIVE ErrorText(_)
ErrorText(err) ==
    CASE err.e = "leaf" -> <<err.msg>>
      [] err.e = "notfound" -> <<"serializer '", err.name, "'", "not found">>
      [] err.e = "MarshalError" ->
            IF err.field # ""
                THEN <<"log: marshal field", err.field, "of type", err.typ>> \o ErrorText(err.err)
                ELSE <<"log: marshal type", err.typ>> \o ErrorText(err.err)
      [] err.e = "panic" -> <<"panic", err.msg>>
      [] err.e = "syntax" ->
            <<"strconv.ParseFloat: parsing ", "\"">> \o err.str \o <<"\"", ": invalid syntax">>
      [] err.e = "convert" -> <<"cannot convert", err.typ, "to float64">>
      [] OTHER -> <<>>

TextContains(text, phrase) == \E i \in 1..Len(text) : text[i] = phrase

----------------------------------------------------------------------------
(* Struct types.  A type declaration lists the fields (name, reflect kind  *)
(* of the field's static type, log tag, json tag) and the methods of the   *)
(* type: ShouldLog (cond), MarshalLog (logger), MarshalJSON (jsonm), each  *)
(* "none" or the receiver kind, "value" or "pointer".  A tag is the        *)
(* sequence of its comma-separated segments; <<>> is a missing tag.        *)

NoTag == <<>>
Fld(name, kind, log, json) == [name |-> name, kind |-> kind, log |-> log, json |-> json]

\* ShouldLog returns the bool field number condField of the receiver;
\* MarshalLog returns mlog: "ok" (compact JSON bytes), "spaced" (valid JSON
\* with insignificant white space), "invalid" (bytes that are no JSON) or
\* "err" (a non-nil error).
TypeDecl(fields, cond, condField, logger, mlog, jsonm) ==
    [fields |-> fields, cond |-> cond, condField |-> condField,
     logger |-> logger, mlog |-> mlog, jsonm |-> jsonm]
PlainType(fields) == TypeDecl(fields, "none", 0, "none", "ok", "none")

\* segments of a tag that are key=value pairs: [key, val]; table-driven
\* strings.HasPrefix / strings.TrimPrefix on the segments the model uses
SegTable ==
    [seg \in {"ser=upper", "ser=boom", "ser=lazy1", "ser=missing", "ser=late", "ser=",
              "ser=currency",
              "mask=phone", "mask=email", "mask=nomask", "precision=2", "precision=0",
              "precision=x", "format=f", "unit=u"} |->
       CASE seg = "ser=upper" -> [key |-> "ser", val |-> "upper"]
         [] seg = "ser=boom" -> [key |-> "ser", val |-> "boom"]
         [] seg = "ser=lazy1" -> [key |-> "ser", val |-> "lazy1"]
         [] seg = "ser=missing" -> [key |-> "ser", val |-> "missing"]
         [] seg = "ser=late" -> [key |-> "ser", val |-> "late"]
         [] seg = "ser=" -> [key |-> "ser", val |-> ""]
         [] seg = "ser=currency" -> [key |-> "ser", val |-> "currency"]
         [] seg = "mask=phone" -> [key |-> "mask", val |-> "phone"]
         [] seg = "mask=email" -> [key |-> "mask", val |-> "email"]
         [] seg = "mask=nomask" -> [key |-> "mask", val |-> "nomask"]
         [] seg = "precision=2" -> [key |-> "precision", val |-> "2"]
         [] seg = "precision=0" -> [key |-> "precision", val |-> "0"]
         [] seg = "precision=x" -> [key |-> "precision", val |-> "x"]
         [] seg = "format=f" -> [key |-> "format", val |-> "f"]
         [] seg = "unit=u" -> [key |-> "unit", val |-> "u"]]

HasPrefix(seg, key) == seg \in DOMAIN SegTable /\ SegTable[seg].key = key
TrimPrefix(seg, key) == SegTable[seg].val

\* strconv.Atoi on the precision values the model uses: [ok, n]
Atoi(str) ==
    CASE str = "0" -> [ok |-> TRUE, n |-> 0]
      [] str = "2" -> [ok |-> TRUE, n |-> 2]
      [] OTHER -> [ok |-> FALSE, n |-> 0]

DefaultFieldOptions(name) ==
    [Name |-> name, OmitEmpty |-> FALSE, Serializer |-> "", Mask |-> "",
     Inline |-> FALSE, String |-> FALSE, Precision |-> 0, Format |-> "", Unit |-> ""]

\* one option segment applied to the options parsed so far
ParseSegment(opts, seg, kind) ==
    CASE seg = "omitempty" -> [opts EXCEPT !.OmitEmpty = TRUE]
      [] seg = "inline" /\ kind = "struct" -> [opts EXCEPT !.Inline = TRUE]
      [] seg = "string" -> [opts EXCEPT !.String = TRUE]
      [] HasPrefix(seg, "ser") -> [opts EXCEPT !.Serializer = TrimPrefix(seg, "ser")]
      [] HasPrefix(seg, "mask") -> [opts EXCEPT !.Mask = TrimPrefix(seg, "mask")]
      [] HasPrefix(seg, "precision") ->
            IF Atoi(TrimPrefix(seg, "precision")).ok
                THEN [opts EXCEPT !.Precision = Atoi(TrimPrefix(seg, "precision")).n]
                ELSE opts
      [] HasPrefix(seg, "format") -> [opts EXCEPT !.Format = TrimPrefix(seg, "format")]
      [] HasPrefix(seg, "unit") -> [opts EXCEPT !.Unit = TrimPrefix(seg, "unit")]
      [] OTHER -> opts

RECURSIVE ParseSegments(_, _, _, _)
ParseSegments(opts, tag, i, kind) ==
    IF i > Len(tag) THEN opts
    ELSE ParseSegments(ParseSegment(opts, tag[i], kind), tag, i + 1, kind)

\* a parser that keeps the Go field name whatever the tag says
TagIgnored(tag, sf) == DefaultFieldOptions(sf.name)

\* parseFieldOptions(tag, sf): tag is present (at least one segment)
parseFieldOptions(tag, sf) ==
    IF tag = <<"-">> THEN [DefaultFieldOptions(sf.name) EXCEPT !.Name = "-"]
    ELSE IF Len(tag) = 1 THEN [DefaultFieldOptions(sf.name) EXCEPT !.Name = tag[1]]
    ELSE ParseSegments([DefaultFieldOptions(sf.name) EXCEPT !.Name = tag[1]], tag, 2, sf.kind)

\* tag options in which nothing is found
NoOption(jsonOpts, opt) == FALSE

\* tagOpts.Contains
TagOptsContains(jsonOpts, opt) == \E i \in 1..Len(jsonOpts) : jsonOpts[i] = opt

\* the fieldInfo getStructInfo appends for field i of the type, <<>> if none
FieldInfoOf(sf, i) ==
    IF sf.log # NoTag
        THEN <<[index |-> i, name |-> sf.name, opts |-> parseFieldOptions(sf.log, sf),
                jsonName |-> "", jsonOpts |-> <<>>]>>
    ELSE IF sf.json # NoTag /\ sf.json # <<"">>
        THEN <<[index |-> i, name |-> "", opts |-> DefaultFieldOptions(""),
                jsonName |-> sf.json[1], jsonOpts |-> Tail(sf.json)]>>
    ELSE <<>>

RECURSIVE StructFieldsFrom(_, _)
StructFieldsFrom(fields, i) ==
    IF i > Len(fields) THEN <<>>
    ELSE FieldInfoOf(fields[i], i) \o StructFieldsFrom(fields, i + 1)

\* getStructInfo(rt): the struct metadata built for a type on first use.
\* The cache in front of the build returns what the build returned.
getStructInfo(decl) ==
    [hasLogTag |-> \E i \in 1..Len(decl.fields) : decl.fields[i].log # NoTag,
     fields |-> StructFieldsFrom(decl.fields, 1)]

----------------------------------------------------------------------------
(* The context of one encode call, c: the heap c.h, the options c.o, the   *)
(* struct types of the program c.types and the order c.rev in which Go     *)
(* happens to iterate maps.  The state threaded through the recursion, s:  *)
(* the visited set s.vis, the registries s.reg and s.lazy, and s.calls,    *)
(* the record of the user callbacks invoked so far, and s.marks, the       *)
(* record of the visited set at each pointer entered.                      *)

Log(s, op, on, at) == [s EXCEPT !.calls = @ \cup {[op |-> op, on |-> on, at |-> at]}]

\* fv.Interface(): the dynamic value of an interface-typed field
Interface(fv) == IF fv.k = "iface" THEN fv.v ELSE fv

\* v.(I) for I the interface with method m ("cond", "logger", "jsonm"):
\* the method set of T holds the value-receiver methods, that of *T all
Implements(c, v, m) ==
    CASE v.k = "struct" -> c.types[v.t][m] = "value"
      [] v.k = "ptr" -> v.t \in DOMAIN c.types /\ c.types[v.t][m] \in {"value", "pointer"}
      [] OTHER -> FALSE

\* cl.ShouldLog(): the methods of the model return a bool field of the
\* receiver; on a nil pointer that is a nil dereference
ShouldLog(c, v) ==
    CASE v.k = "struct" -> [panic |-> FALSE, val |-> v.f[c.types[v.t].condField].b]
      [] v.k = "ptr" /\ v.a # 0 ->
            [panic |-> FALSE, val |-> c.h[v.a].f[c.types[v.t].condField].b]
      [] OTHER -> [panic |-> TRUE, val |-> FALSE]

Bytes(src, of, form) == [src |-> src, of |-> of, form |-> form]

\* lg.MarshalLog(): the methods of the model return fixed bytes or a fixed
\* error; a value-receiver method called through a nil pointer panics
MarshalLog(c, v) ==
    IF v.k = "ptr" /\ v.a = 0 /\ c.types[v.t].logger = "value"
        THEN [st |-> "panic", by |-> Bytes("", "", ""), err |-> NoErr]
    ELSE IF c.types[v.t].mlog = "err"
        THEN [st |-> "err", by |-> Bytes("", "", ""), err |-> ErrLeaf("field logger error")]
    ELSE [st |-> "ok", by |-> Bytes("MarshalLog", v.t, c.types[v.t].mlog), err |-> NoErr]

MarshalJSON(c, v) == [st |-> "ok", by |-> Bytes("MarshalJSON", v.t, "compact"), err |-> NoErr]

\* rv.Len() of a slice or map value
LenOf(c, v) ==
    CASE v.k = "str" -> Len(v.s)
      [] v.k = "slice" -> IF v.a = 0 THEN 0 ELSE Len(c.h[v.a].e)
      [] v.k = "map" -> IF v.a = 0 THEN 0 ELSE Cardinality(DOMAIN c.h[v.a].m)
      [] OTHER -> 0

\* an emptiness test for which nothing is empty
NeverEmpty(c, v) == FALSE

RECURSIVE isEmpty(_, _)
isEmpty(c, v) ==
    CASE v.k \in {"str", "slice", "map"} -> LenOf(c, v) = 0
      [] v.k = "bool" -> ~v.b
      [] v.k = "int" -> v.n = 0
      [] v.k = "float" -> v.m = 0
      [] v.k = "iface" -> v.v.k = "nil"
      [] v.k = "ptr" -> v.a = 0
      [] v.k = "struct" -> \A i \in 1..Len(v.f) : isEmpty(c, v.f[i])
      [] OTHER -> FALSE

----------------------------------------------------------------------------
(* Masks                                                                   *)

Stars(n) == [i \in 1..n |-> "*"]
IndexByte(str, ch) ==
    IF \E i \in 1..Len(str) : str[i] = ch
        THEN (CHOOSE i \in 1..Len(str) : str[i] = ch /\ \A j \in 1..(i - 1) : str[j] # ch) - 1
        ELSE -1

defaultMask(str) ==
    IF Len(str) <= 4 THEN Stars(4)
    ELSE LET visibleChars == IF Len(str) > 8 THEN 3 ELSE 2
             prefix == SubSeq(str, 1, visibleChars \div 2)
             suffix == SubSeq(str, Len(str) - (visibleChars \div 2) + 1, Len(str))
             maskedLength == Len(str) - visibleChars
         IN IF maskedLength <= 0 THEN Stars(4)
            ELSE prefix \o Stars(maskedLength) \o suffix

\* a mask that returns its input
Unmasked(str) == str

phoneMask(str) ==
    IF Len(str) = 11 THEN SubSeq(str, 1, 3) \o Stars(4) \o SubSeq(str, 8, 11)
    ELSE Stars(3)

emailMask(str) ==
    LET idx == IndexByte(str, "@")
    IN IF idx > 0
          THEN IF idx > 3 THEN SubSeq(str, 1, 3) \o Stars(3) \o SubSeq(str, idx + 1, Len(str))
               ELSE SubSeq(str, 1, 1) \o Stars(3) \o SubSeq(str, idx + 1, Len(str))
          ELSE Stars(3)

defaultMK == "default"

\* getMask(name)(s): maskReg holds the built-in masks phone and email
getMask(name, str) ==
    LET n == IF name = "" THEN defaultMK ELSE name
    IN CASE n = "phone" -> phoneMask(str)
         [] n = "email" -> emailMask(str)
         [] OTHER -> defaultMask(str)

----------------------------------------------------------------------------
(* Serializer registries                                                   *)

Digits == {"0", "1", "2", "3", "4", "5", "6", "7", "8", "9"}

\* toFloat64(v): the error it returns, NoErr if it converts.  ParseFloat
\* accepts the strings of the model that are made of digits
toFloat64(v) ==
    CASE v.k \in {"int", "float"} -> NoErr
      [] v.k = "str" ->
            IF Len(v.s) > 0 /\ \A i \in 1..Len(v.s) : v.s[i] \in Digits THEN NoErr
            ELSE ErrSyntax(v.s)
      [] OTHER -> ErrConvert(v.k)

\* what a registered serializer function returns when called on v
SerializerResult(fn, v) ==
    CASE fn = "boomFn" ->
            [ok |-> FALSE, by |-> Bytes("", "", ""), err |-> ErrLeaf("serializer error")]
      [] fn = "currencyFn" /\ toFloat64(v) # NoErr ->
            [ok |-> FALSE, by |-> Bytes("", "", ""), err |-> toFloat64(v)]
      [] OTHER -> [ok |-> TRUE, by |-> Bytes("ser", fn, "compact"), err |-> NoErr]

\* what a lazy factory returns when called
FactoryResult(factory) == IF factory = "currencyFactory" THEN "currencyFn" ELSE "lazyFn"

\* a registry in which every name is found
AnythingRegistered(reg, name) == [ok |-> TRUE, fn |-> "upperFn"]

\* serReg.LoadOrStore / Store: the last registration wins
RegisterSerializerIn(reg, name, fn) == IF name = "" THEN reg ELSE Put(reg, name, fn)

\* a registry in which no name is found
NothingRegistered(reg, name) == [ok |-> FALSE, fn |-> ""]

getSer(reg, name) ==
    IF name \in DOMAIN reg THEN [ok |-> TRUE, fn |-> reg[name]] ELSE [ok |-> FALSE, fn |-> ""]

\* getLazySerializer(name): [ok, fn] and the state it leaves
getLazySerializer(s, name) ==
    IF getSer(s.reg, name).ok THEN [ok |-> TRUE, fn |-> getSer(s.reg, name).fn, s |-> s]
    ELSE IF name \notin DOMAIN s.lazy THEN [ok |-> FALSE, fn |-> "", s |-> s]
    ELSE LET serializerFunc == FactoryResult(s.lazy[name])
             s1 == Log(s, "factory", name, "")
         IN [ok |-> TRUE, fn |-> serializerFunc,
             s |-> [s1 EXCEPT !.reg = RegisterSerializerIn(s.reg, name, serializerFunc),
                              !.lazy = [x \in (DOMAIN s.lazy) \ {name} |-> s.lazy[x]]]]

----------------------------------------------------------------------------
(* Field-level error strings                                               *)

DigitRun(text, i, n) == i + n - 1 <= Len(text) /\ \A j \in i..(i + n - 1) : text[j] \in Digits
Sep(text, i) == i <= Len(text) /\ text[i] \in {"-", " "}

\* regexp \d{4}[-\s]?\d{4}[-\s]?\d{4}[-\s]?\d{4} matched at position i
CardAt(text, i) ==
    \E s1, s2, s3 \in {0, 1} :
        /\ DigitRun(text, i, 4)
        /\ (s1 = 1 => Sep(text, i + 4))
        /\ DigitRun(text, i + 4 + s1, 4)
        /\ (s2 = 1 => Sep(text, i + 8 + s1))
        /\ DigitRun(text, i + 8 + s1 + s2, 4)
        /\ (s3 = 1 => Sep(text, i + 12 + s1 + s2))
        /\ DigitRun(text, i + 12 + s1 + s2 + s3, 4)

\* the field names of the model whose lower-case form contains one of the
\* keywords password, passwd, pwd, secret, token, key, credential, auth,
\* private, credit, ssn, phone, email, address, card, bank
SensitiveFieldNames == {"Password", "Email", "Phone", "Token", "ApiKey", "Author"}

containsSensitiveData(fieldName, value) ==
    \/ fieldName \in SensitiveFieldNames
    \/ (TextContains(value, "@") /\ TextContains(value, "."))
    \/ \E i \in 1..Len(value) : DigitRun(value, i, 11)
    \/ \E i \in 1..Len(value) : CardAt(value, i)

RECURSIVE safeValueToString(_, _)
safeValueToString(c, fv) ==
    CASE fv.k = "nil" -> <<"<invalid>">>
      [] fv.k = "str" -> fv.s
      [] fv.k = "int" -> <<ToString(fv.n)>>
      [] fv.k = "float" -> <<"%f", ToString(fv.m)>>
      [] fv.k = "bool" -> IF fv.b THEN <<"true">> ELSE <<"false">>
      [] fv.k = "ptr" -> IF fv.a = 0 THEN <<"<nil>">> ELSE safeValueToString(c, c.h[fv.a])
      [] fv.k = "iface" -> IF fv.v.k = "nil" THEN <<"<nil>">> ELSE safeValueToString(c, fv.v)
      [] fv.k \in {"slice", "map"} -> <<fv.k, "[len=", ToString(LenOf(c, fv)), "]">>
      [] fv.k = "struct" -> <<fv.t, "{...}">>
      [] OTHER -> <<"%v", fv.k>>

ErrorString(fieldName, valueStr, text) ==
    [k |-> "errstr", field |-> fieldName, value |-> valueStr, error |-> text]

createErrorString(c, fieldName, fv, err) ==
    LET valueStr == safeValueToString(c, fv)
    IN ErrorString(fieldName,
                   IF containsSensitiveData(fieldName, valueStr) THEN <<"<sensitive>">> ELSE valueStr,
                   ErrorText(err))

----------------------------------------------------------------------------
(* Post-processing of a field value                                        *)

Pow10(n) == IF n = 0 THEN 1 ELSE IF n = 1 THEN 10 ELSE IF n = 2 THEN 100 ELSE 1000
Abs(n) == IF n < 0 THEN 0 - n ELSE n
\* math.Round(f * 10^p) / 10^p on a value of m thousandths, 0 < p <= 3:
\* round half away from zero
RoundTo(m, p) ==
    LET unit == Pow10(3 - p)
        q == (Abs(m) + (unit \div 2)) \div unit
    IN (IF m < 0 THEN 0 - 1 ELSE 1) * q * unit

\* fmt.Sprintf("%v", val)
Sprintf(val) ==
    CASE val.k = "str" -> val
      [] val.k = "int" -> StrV(<<ToString(val.n)>>)
      [] val.k = "bool" -> StrV(IF val.b THEN <<"true">> ELSE <<"false">>)
      [] OTHER -> [k |-> "sprintf", of |-> val]

\* applyFieldPostProcessing(fi, fieldName, fv, val, m): the map it leaves
applyFieldPostProcessing(c, fi, val, m) ==
    IF val.k = "null" THEN m
    ELSE LET masked ==
                 IF (c.o.MaskSensitive \/ fi.opts.Mask # "") /\ val.k = "str"
                     THEN StrV(getMask(fi.opts.Mask, val.s))
                     ELSE val
             rounded ==
                 IF fi.opts.Precision > 0 /\ masked.k = "float" /\ fi.opts.Precision <= 3
                     THEN FloatV(RoundTo(masked.m, fi.opts.Precision))
                     ELSE masked
             str == IF fi.opts.String THEN Sprintf(rounded) ELSE rounded
         IN Put(m, fi.opts.Name, str)

----------------------------------------------------------------------------
(* The value resolver.  Every operator returns an outcome: st is "ok",     *)
(* "err" (a returned error), "panic" (a Go panic unwinding the call) or    *)
(* "overflow" (unbounded recursion); out is the node or map produced, s    *)
(* the state left behind.                                                  *)

Ok(out, s) == [st |-> "ok", out |-> out, err |-> NoErr, s |-> s]
Fail(err, s) == [st |-> "err", out |-> Null, err |-> err, s |-> s]
Panic(msg, s) == [st |-> "panic", out |-> Null, err |-> ErrPanic(msg), s |-> s]
Overflow(s) == [st |-> "overflow", out |-> Null, err |-> ErrPanic("stack overflow"), s |-> s]

\* a resolver that never finds a pointer in the visited set
NeverVisited(vis, ptr) == FALSE

\* e.visited[ptr]
IsVisited(vis, ptr) == ptr \in vis
\* e.visited[ptr] = true
MarkVisited(vis, ptr) == vis \cup {ptr}
\* a resolver whose pointers stay in the visited set
KeepVisited(vis, ptr) == vis
\* defer delete(e.visited, ptr)
Unvisit(vis, ptr) == vis \ {ptr}

\* s.marks records, for the properties, the visited set as it stood when the
\* subtree of pointer ptr was entered
Marked(s, ptr) == [s EXCEPT !.marks = @ \cup {[ptr |-> ptr, vis |-> s.vis]}]

\* the keys of a map in the order this call iterates them
KeyOrder == <<"a", "b", "c">>
RECURSIVE KeysFrom(_, _, _)
KeysFrom(m, i, rev) ==
    IF i > Len(KeyOrder) THEN <<>>
    ELSE LET key == KeyOrder[IF rev THEN Len(KeyOrder) + 1 - i ELSE i]
         IN (IF key \in DOMAIN m THEN <<key>> ELSE <<>>) \o KeysFrom(m, i + 1, rev)
MapKeys(c, obj) == KeysFrom(obj.m, 1, c.rev)

\* the error-fallback decision taken at a failed field
FieldError(c, s, sf, fv, fi, m, err) ==
    IF c.o.EnableErrorFallback
        THEN Ok(Put(m, fi.opts.Name, createErrorString(c, sf.name, fv, err)), s)
        ELSE Fail(err, s)

\* encodeWithSerializer: outcome plus handled
encodeWithSerializer(c, s, fv, sf, fi, m) ==
    IF fi.opts.Serializer = "" THEN [handled |-> FALSE, r |-> Ok(m, s)]
    ELSE LET first == getSer(s.reg, fi.opts.Serializer)
             found == IF first.ok THEN [ok |-> TRUE, fn |-> first.fn, s |-> s]
                      ELSE getLazySerializer(s, fi.opts.Serializer)
         IN IF ~found.ok
               THEN [handled |-> TRUE,
                     r |-> IF c.o.EnableErrorFallback
                              THEN Ok(Put(m, fi.opts.Name,
                                          createErrorString(c, sf.name, fv,
                                                            ErrNotFound(fi.opts.Serializer))),
                                      found.s)
                              ELSE Fail(MarshalError(sf.kind, sf.name,
                                                     ErrNotFound(fi.opts.Serializer)), found.s)]
               ELSE LET res == SerializerResult(found.fn, Interface(fv))
                        s1 == Log(found.s, "serializer", fi.opts.Serializer, sf.name)
                    IN [handled |-> TRUE,
                        r |-> IF ~res.ok
                                 THEN IF c.o.EnableErrorFallback
                                         THEN Ok(Put(m, fi.opts.Name,
                                                     createErrorString(c, sf.name, fv, res.err)), s1)
                                         ELSE Fail(MarshalError(sf.kind, sf.name, res.err), s1)
                                 ELSE Ok(Put(m, fi.opts.Name, RawMessage(res.by)), s1)]

\* the encoder methods call one another through resolve
RECURSIVE resolve(_, _, _, _)


\* encodeReflect(rv); ad: rv.CanAddr(); d: the recursion budget left
encodeReflect(c, s, rv, ad, d) ==
    IF d = 0 THEN Overflow(s)
    ELSE CASE rv.k = "ptr" ->
                IF rv.a = 0 THEN Ok(Null, s)
                ELSE IF IsVisited(s.vis, rv.a)
                    THEN Fail(MarshalError(rv.t, "", ErrLeaf("cyclic reference detected")), s)
                ELSE LET r == resolve("encodeReflect", c,
                                      Marked([s EXCEPT !.vis = MarkVisited(@, rv.a)], rv.a),
                                      <<c.h[rv.a], TRUE, d - 1>>)
                     IN [r EXCEPT !.s.vis = Unvisit(@, rv.a)]
           [] rv.k = "struct" -> resolve("encodeStruct", c, s, <<rv, ad, d>>)
           [] rv.k = "slice" ->
                IF LenOf(c, rv) = 0 /\ c.o.OmitEmptyByDefault THEN Ok(Null, s)
                ELSE IF rv.a = 0 THEN Ok(ArrNode(<<>>), s)
                ELSE resolve("encodeSlice", c, s, <<c.h[rv.a].e, 1, <<>>, d>>)
           [] rv.k = "map" ->
                IF LenOf(c, rv) = 0 /\ c.o.OmitEmptyByDefault THEN Ok(Null, s)
                ELSE IF rv.a = 0 THEN Ok(MapNode(EmptyMap), s)
                ELSE resolve("encodeMap", c, s,
                             <<c.h[rv.a], MapKeys(c, c.h[rv.a]), 1, EmptyMap, d>>)
           [] rv.k \in {"str", "bool", "float", "int"} -> Ok(rv, s)
           [] rv.k = "iface" ->
                IF rv.v.k = "nil" THEN Ok(Null, s)
                ELSE resolve("encodeReflect", c, s, <<rv.v, FALSE, d - 1>>)
           [] OTHER -> Ok(Null, s)

\* the loop over the elements of a slice, from element i on
encodeSlice(c, s, elems, i, arr, d) ==
    IF i > Len(elems) THEN Ok(ArrNode(arr), s)
    ELSE LET sub == resolve("encodeReflect", c, s, <<elems[i], TRUE, d - 1>>)
         IN IF sub.st # "ok" THEN sub
            ELSE resolve("encodeSlice", c, sub.s,
                         <<elems, i + 1,
                           IF sub.out.k # "null" THEN Append(arr, sub.out) ELSE arr, d>>)

\* the loop over the keys of a map, from key number i on
encodeMap(c, s, obj, keys, i, m, d) ==
    IF obj.keyKind # "string" \/ i > Len(keys) THEN Ok(MapNode(m), s)
    ELSE LET sub == resolve("encodeReflect", c, s, <<obj.m[keys[i]], FALSE, d - 1>>)
         IN IF sub.st # "ok" THEN sub
            ELSE resolve("encodeMap", c, sub.s,
                         <<obj, keys, i + 1,
                           IF sub.out.k # "null" THEN Put(m, keys[i], sub.out) ELSE m, d>>)

encodeStruct(c, s, rv, ad, d) ==
    LET rt == rv.t
        decl == c.types[rt]
        info == getStructInfo(decl)
        isLogger == decl.logger = "value" \/ (ad /\ decl.logger = "pointer")
        isJSON == decl.jsonm = "value" \/ (ad /\ decl.jsonm = "pointer")
    IN IF ~c.o.DisableLoggerInterface /\ isLogger
          THEN LET lg == MarshalLog(c, rv)
                   s1 == Log(s, "MarshalLog", rt, "")
               IN IF lg.st = "err" THEN Fail(MarshalError(rt, "", lg.err), s1)
                  ELSE Ok(RawMessage(lg.by), s1)
       ELSE IF info.hasLogTag
          THEN resolve("encodeTagged", c, s, <<rv, info.fields, 1, EmptyMap, ad, d>>)
       ELSE IF ~c.o.DisableJSONFallback /\ isJSON
          THEN Ok(RawMessage(MarshalJSON(c, rv).by), Log(s, "MarshalJSON", rt, ""))
       ELSE IF ~c.o.DisableJSONFallback
          THEN resolve("encodeFallback", c, s, <<rv, info.fields, 1, EmptyMap, ad, d>>)
       ELSE Ok(Null, s)

\* the loop over the log-tagged fields, from entry i of info.fields on
encodeTagged(c, s, rv, fields, i, m, ad, d) ==
    IF i > Len(fields) THEN Ok(MapNode(m), s)
    ELSE LET fi == fields[i]
             sf == c.types[rv.t].fields[fi.index]
             r == resolve("encodeField", c, s, <<sf, rv.f[fi.index], fi, m, ad, d>>)
         IN IF r.st = "err" THEN Fail(MarshalError(rv.t, sf.name, r.err), r.s)
            ELSE IF r.st # "ok" THEN r
            ELSE resolve("encodeTagged", c, r.s, <<rv, fields, i + 1, r.out, ad, d>>)

\* the loop over the json-tagged fields (generic fallback)
encodeFallback(c, s, rv, fields, i, m, ad, d) ==
    IF i > Len(fields) THEN Ok(MapNode(m), s)
    ELSE LET fi == fields[i]
             sf == c.types[rv.t].fields[fi.index]
             fv == rv.f[fi.index]
         IN IF fi.jsonName = "" \/ fi.jsonName = "-"
               THEN resolve("encodeFallback", c, s, <<rv, fields, i + 1, m, ad, d>>)
            ELSE IF TagOptsContains(fi.jsonOpts, "omitempty") /\ isEmpty(c, fv)
               THEN resolve("encodeFallback", c, s, <<rv, fields, i + 1, m, ad, d>>)
            ELSE LET sub == resolve("encodeReflect", c, s, <<fv, ad, d - 1>>)
                 IN IF sub.st = "err" THEN Fail(MarshalError(rv.t, sf.name, sub.err), sub.s)
                    ELSE IF sub.st # "ok" THEN sub
                    ELSE resolve("encodeFallback", c, sub.s,
                                 <<rv, fields, i + 1,
                                   IF sub.out.k # "null" THEN Put(m, fi.jsonName, sub.out)
                                   ELSE m, ad, d>>)

\* encodeField(sf, fv, fi, m): the outcome's out is the map m it leaves
encodeField(c, s, sf, fv, fi, m, ad, d) ==
    IF fi.opts.Name = "-" THEN Ok(m, s)
    ELSE IF Implements(c, Interface(fv), "cond")
        THEN LET cl == ShouldLog(c, Interface(fv))
                 s1 == Log(s, "ShouldLog", Interface(fv).t, sf.name)
             IN IF cl.panic THEN Panic("nil pointer dereference", s)
                ELSE IF ~cl.val THEN Ok(m, s1)
                ELSE LET sub == resolve("encodeReflect", c, s1, <<fv, ad, d - 1>>)
                     IN IF sub.st = "err" THEN FieldError(c, sub.s, sf, fv, fi, m, sub.err)
                        ELSE IF sub.st # "ok" THEN sub
                        ELSE Ok(IF sub.out.k # "null" THEN Put(m, fi.opts.Name, sub.out) ELSE m,
                                sub.s)
    ELSE IF (fi.opts.OmitEmpty \/ c.o.OmitEmptyByDefault) /\ isEmpty(c, fv) THEN Ok(m, s)
    ELSE LET ws == encodeWithSerializer(c, s, fv, sf, fi, m)
         IN IF ws.handled THEN ws.r
            ELSE IF ~c.o.DisableLoggerInterface /\ Implements(c, Interface(fv), "logger")
                THEN LET lg == MarshalLog(c, Interface(fv))
                         s1 == Log(s, "MarshalLog", Interface(fv).t, sf.name)
                     IN IF lg.st = "panic" THEN Panic("nil pointer dereference", s)
                        ELSE IF lg.st = "err" THEN FieldError(c, s1, sf, fv, fi, m, lg.err)
                        ELSE Ok(Put(m, fi.opts.Name, RawMessage(lg.by)), s1)
            ELSE resolve("encodeBasic", c, s, <<fv, sf, fi, m, ad, d>>)

encodeBasic(c, s, fv, sf, fi, m, ad, d) ==
    IF fi.opts.Inline /\ fv.k = "struct"
        THEN resolve("encodeInlineField", c, s, <<fv, sf, fi, m, ad, d>>)
    ELSE LET sub == resolve("encodeReflect", c, s, <<fv, ad, d - 1>>)
         IN IF sub.st = "err" THEN FieldError(c, sub.s, sf, fv, fi, m, sub.err)
            ELSE IF sub.st # "ok" THEN sub
            ELSE Ok(applyFieldPostProcessing(c, fi, sub.out, m), sub.s)

\* an inline field that adds nothing to the parent
InlineDropped(c, s, fv, sf, fi, m, ad, d) == Ok(m, s)

\* encodeInlineField(fv, sf, fi, m)
encodeInlineField(c, s, fv, sf, fi, m, ad, d) ==
    LET sub == resolve("encodeReflect", c, s, <<fv, ad, d - 1>>)
    IN IF sub.st = "err" THEN FieldError(c, sub.s, sf, fv, fi, m, sub.err)
       ELSE IF sub.st # "ok" THEN sub
       ELSE IF sub.out.k = "map"
           THEN Ok([x \in (DOMAIN m) \cup (DOMAIN sub.out.m) |->
                       IF x \in DOMAIN sub.out.m THEN sub.out.m[x] ELSE m[x]], sub.s)
       ELSE Ok(m, sub.s)

\* the call of the encoder method fn with the arguments a
resolve(fn, c, s, a) ==
    CASE fn = "encodeReflect" -> encodeReflect(c, s, a[1], a[2], a[3])
      [] fn = "encodeSlice" -> encodeSlice(c, s, a[1], a[2], a[3], a[4])
      [] fn = "encodeMap" -> encodeMap(c, s, a[1], a[2], a[3], a[4], a[5])
      [] fn = "encodeStruct" -> encodeStruct(c, s, a[1], a[2], a[3])
      [] fn = "encodeTagged" -> encodeTagged(c, s, a[1], a[2], a[3], a[4], a[5], a[6])
      [] fn = "encodeFallback" -> encodeFallback(c, s, a[1], a[2], a[3], a[4], a[5], a[6])
      [] fn = "encodeField" -> encodeField(c, s, a[1], a[2], a[3], a[4], a[5], a[6])
      [] fn = "encodeBasic" -> encodeBasic(c, s, a[1], a[2], a[3], a[4], a[5], a[6])
      [] fn = "encodeInlineField" ->
            encodeInlineField(c, s, a[1], a[2], a[3], a[4], a[5], a[6])

\* encode(v): the top-level value
encode(c, s, v) ==
    IF Implements(c, v, "cond") /\ ShouldLog(c, v).panic
        THEN Panic("nil pointer dereference", s)
    ELSE IF Implements(c, v, "cond") /\ ~ShouldLog(c, v).val
        THEN Ok(Null, Log(s, "ShouldLog", v.t, ""))
    ELSE LET s0 == IF Implements(c, v, "cond") THEN Log(s, "ShouldLog", v.t, "") ELSE s
         IN IF ~c.o.DisableLoggerInterface /\ Implements(c, v, "logger")
               THEN LET lg == MarshalLog(c, v)
                        s1 == Log(s0, "MarshalLog", v.t, "")
                    IN IF lg.st = "panic" THEN Panic("nil pointer dereference", s0)
                       ELSE IF lg.st = "err" THEN Fail(lg.err, s1)
                       ELSE Ok(RawMessage(lg.by), s1)
            ELSE resolve("encodeReflect", c, s0, <<v, FALSE, MaxDepth>>)

----------------------------------------------------------------------------
(* The driver                                                              *)

\* the options MarshalWithOpts starts from
DefaultOptions ==
    [DisableLoggerInterface |-> FALSE, DisableJSONFallback |-> FALSE,
     OmitEmptyByDefault |-> FALSE, MaskSensitive |-> FALSE, EnableErrorFallback |-> TRUE]

\* json.Encoder.Encode(enc.out): a RawMessage is checked and compacted
RECURSIVE ValidJSON(_)
ValidJSON(node) ==
    CASE node.k = "raw" -> node.by.form # "invalid"
      [] node.k = "map" -> \A key \in DOMAIN node.m : ValidJSON(node.m[key])
      [] node.k = "arr" -> \A i \in 1..Len(node.e) : ValidJSON(node.e[i])
      [] OTHER -> TRUE

\* an emitter that writes raw bytes as they are
NotCompacted(node) == node

RECURSIVE Compacted(_)
Compacted(node) ==
    CASE node.k = "raw" -> RawMessage([node.by EXCEPT !.form = "compact"])
      [] node.k = "map" -> MapNode([key \in DOMAIN node.m |-> Compacted(node.m[key])])
      [] node.k = "arr" -> ArrNode([i \in 1..Len(node.e) |-> Compacted(node.e[i])])
      [] OTHER -> node

jsonEncode(out) ==
    IF ValidJSON(out) THEN [ok |-> TRUE, by |-> Compacted(out), err |-> NoErr]
    ELSE [ok |-> FALSE, by |-> Null,
          err |-> ErrLeaf("json: error calling MarshalJSON for type json.RawMessage")]

\* what the call hands back when enc.encode(v) ended as r, before any byte
\* is written: the error or panic of r, or enc.out with the registries and
\* the callbacks record
EncodeOutcome(r) ==
    [st |-> r.st, by |-> Null, err |-> r.err, out |-> r.out,
     reg |-> r.s.reg, lazy |-> r.s.lazy, calls |-> r.s.calls, vis |-> r.s.vis,
     marks |-> r.s.marks]

\* jsonEnc.Encode(enc.out) ended as enc: its error, or the bytes
WithBytes(done, enc) ==
    IF ~enc.ok THEN [done EXCEPT !.st = "err", !.err = enc.err]
    ELSE [done EXCEPT !.by = enc.by]

\* the rest of MarshalWithOpts after enc.encode(v): an error is returned as
\* it is, a nil enc.out is "null", anything else goes to the JSON encoder
WriteOut(done) ==
    IF done.st # "ok" THEN done
    ELSE IF done.out.k = "null" THEN done
    ELSE WithBytes(done, jsonEncode(done.out))

\* MarshalWithOpts(v, opts...): c.o is the options after the option
\* functions ran.  The outcome: st, the bytes by (as the tree they spell),
\* the error, the tree enc.out, and the registries and callbacks record
MarshalWithOpts(c, reg, lazy, v) ==
    WriteOut(EncodeOutcome(encode(c, [vis |-> {}, marks |-> {}, reg |-> reg, lazy |-> lazy,
                                      calls |-> {}], v)))

----------------------------------------------------------------------------
(* The struct types of the program that is modelled, and its inputs        *)

\* the text of string values
Text(str) ==
    CASE str = "" -> <<>>
      [] str = "ab" -> <<"a", "b">>
      [] str = "n1" -> <<"n", "1">>
      [] str = "secret" -> <<"s", "e", "c", "r", "e", "t">>
      [] str = "a@b.c" -> <<"a", "@", "b", ".", "c">>
      [] str = "13812345678" -> <<"1", "3", "8", "1", "2", "3", "4", "5", "6", "7", "8">>

\* linked types: a name and a link to the next object, held in a field of
\* interface type
\*   Node:  both fields log-tagged
\*   JNode: both fields json-tagged only
\*   UNode: the name log-tagged, the link without any tag
\*   CNode: log-tagged, with a ShouldLog method returning field Show
NodeType == PlainType(<<Fld("Name", "string", <<"name">>, NoTag),
                        Fld("Next", "interface", <<"next">>, NoTag)>>)
JNodeType == PlainType(<<Fld("Name", "string", NoTag, <<"name">>),
                         Fld("Next", "interface", NoTag, <<"next">>)>>)
UNodeType == PlainType(<<Fld("Name", "string", <<"name">>, NoTag),
                         Fld("Next", "interface", NoTag, NoTag)>>)
CNodeType == TypeDecl(<<Fld("Show", "bool", <<"show">>, NoTag),
                        Fld("Next", "interface", <<"next">>, NoTag)>>,
                      "value", 1, "none", "ok", "none")

LinkTypes == {"Node", "JNode", "UNode", "CNode"}

\* the object of a linked type with its link set to next
LinkObj(t, next) ==
    StructV(t, <<IF t = "CNode" THEN BoolV(FALSE) ELSE StrV(Text("n1")), next>>)
\* a link to object a (0: the nil interface)
Link(ty, a) == IF a = 0 THEN IfaceV(NilV) ELSE IfaceV(PtrV(ty[a], a))

\* the heap of a graph: object i has type ty[i] and links to object nx[i]
GraphHeap(ty, nx) == [a \in 1..Len(ty) |-> LinkObj(ty[a], Link(ty, nx[a]))]

\* types of field values
\*   CondT:   json-tagged fields, ShouldLog returns field Show
\*   CondTag: a log-tagged and a json-tagged field, ShouldLog returns Show
\*   CondLog: ShouldLog returns Show, and a MarshalLog method
\*   LoggerT, LoggerErr, LoggerSp, LoggerBad: MarshalLog on the value,
\*            returning compact JSON, an error, spaced JSON, no JSON
\*   PLogger: MarshalLog on the pointer
\*   Inner:   a log-tagged field;  JInner: a json-tagged field
\*   Plain:   no tag at all
CondTType == TypeDecl(<<Fld("Value", "string", NoTag, <<"value">>),
                        Fld("Show", "bool", NoTag, <<"show">>)>>,
                      "value", 2, "none", "ok", "none")
CondTagType == TypeDecl(<<Fld("Value", "string", <<"value">>, NoTag),
                          Fld("Show", "bool", NoTag, <<"show">>)>>,
                        "value", 2, "none", "ok", "none")
CondLogType == TypeDecl(<<Fld("Value", "string", <<"value">>, NoTag),
                          Fld("Show", "bool", <<"show">>, NoTag)>>,
                        "value", 2, "value", "ok", "none")
LoggerType(receiver, mlog) ==
    TypeDecl(<<Fld("A", "string", <<"a">>, NoTag)>>, "none", 0, receiver, mlog, "none")
InnerType == PlainType(<<Fld("A", "string", <<"a">>, NoTag)>>)
JInnerType == PlainType(<<Fld("A", "string", NoTag, <<"a">>)>>)
PlainStructType == PlainType(<<Fld("A", "string", NoTag, NoTag)>>)

\* the struct that holds the field under study, F, between two plain
\* log-tagged fields; sf is the declaration of F
HolderType(sf) ==
    PlainType(<<Fld("Before", "string", <<"before">>, NoTag), sf,
                Fld("After", "int", <<"after">>, NoTag)>>)

\* the struct that holds F between two plain json-tagged fields, none of
\* the three with a log tag
JHolderType(sf) ==
    PlainType(<<Fld("Before", "string", NoTag, <<"before">>), sf,
                Fld("After", "int", NoTag, <<"after">>)>>)

TypeNames == LinkTypes \cup {"CondT", "CondTag", "CondLog", "LoggerT", "LoggerErr", "LoggerSp",
                             "LoggerBad", "PLogger", "Inner", "JInner", "Plain", "Holder",
                             "JHolder"}

\* the type table of a program whose Holder declares F as sf
Types(sf) ==
    [t \in TypeNames |->
       CASE t = "Node" -> NodeType
         [] t = "JNode" -> JNodeType
         [] t = "UNode" -> UNodeType
         [] t = "CNode" -> CNodeType
         [] t = "CondT" -> CondTType
         [] t = "CondTag" -> CondTagType
         [] t = "CondLog" -> CondLogType
         [] t = "LoggerT" -> LoggerType("value", "ok")
         [] t = "LoggerErr" -> LoggerType("value", "err")
         [] t = "LoggerSp" -> LoggerType("value", "spaced")
         [] t = "LoggerBad" -> LoggerType("value", "invalid")
         [] t = "PLogger" -> LoggerType("pointer", "ok")
         [] t = "Inner" -> InnerType
         [] t = "JInner" -> JInnerType
         [] t = "Plain" -> PlainStructType
         [] t = "Holder" -> HolderType(sf)
         [] t = "JHolder" -> JHolderType(sf)]

Cond(t, str, show) == StructV(t, <<StrV(Text(str)), BoolV(show)>>)
One(t, str) == StructV(t, <<StrV(Text(str))>>)

\* the objects that the field values point to
FixObjs ==
    <<Cond("CondT", "ab", TRUE),
      Cond("CondT", "ab", FALSE),
      ArrObj(<<Cond("CondT", "ab", FALSE), Cond("CondT", "ab", TRUE)>>),
      MapObj("string", [key \in {"a", "b"} |-> IF key = "a" THEN Cond("CondT", "ab", FALSE)
                                               ELSE Cond("CondT", "ab", TRUE)]),
      One("LoggerT", "ab"),
      ArrObj(<<StrV(Text("ab"))>>),
      ArrObj(<<>>),
      One("PLogger", "ab"),
      ArrObj(<<PtrV("CondT", 1), PtrV("CondT", 1)>>),
      MapObj("string", [key \in {"self"} |-> IfaceV(MapV(10))]),
      ArrObj(<<IfaceV(SliceV(11))>>)>>
\* where the holder lives when it is marshalled through a pointer
HolderAddr == Len(FixObjs) + 1
FixHeap(hv) == Append(FixObjs, hv)

\* the values a field is given, with the kind of the field's type
Val(kind, v) == [kind |-> kind, v |-> v]
FieldValues ==
    {Val("string", StrV(Text(str))) : str \in {"", "ab", "a@b.c"}}
    \cup {Val("int", IntV(n)) : n \in {0, 5}}
    \cup {Val("float", FloatV(1236))}
    \cup {Val("bool", BoolV(b)) : b \in BOOLEAN}
    \cup {Val("struct", Cond(t, "ab", show)) : t \in {"CondT", "CondTag", "CondLog"},
                                               show \in BOOLEAN}
    \cup {Val("struct", Cond("CondT", "", FALSE))}
    \cup {Val("ptr", PtrV("CondT", a)) : a \in 0..2}
    \cup {Val("struct", One(t, str)) : t \in {"LoggerT", "Inner"}, str \in {"", "ab"}}
    \cup {Val("struct", One(t, "ab")) : t \in {"LoggerErr", "LoggerSp", "LoggerBad", "PLogger",
                                               "JInner", "Plain"}}
    \cup {Val("ptr", PtrV("LoggerT", a)) : a \in {0, 5}}
    \cup {Val("ptr", PtrV("PLogger", 8))}
    \cup {Val("slice", SliceV(a)) : a \in {0, 3, 6, 7, 9}}
    \cup {Val("map", MapV(a)) : a \in {0, 4}}
    \cup {Val("interface", IfaceV(v)) : v \in {NilV, StrV(Text("ab"))}}
    \cup {Val("chan", ChanV)}

\* the log tags F is declared with (NoTag: F has a json tag only)
FieldTags ==
    {NoTag, <<"-">>, <<"f">>, <<"f", "omitempty">>, <<"f", "inline">>,
     <<"f", "ser=upper">>, <<"f", "ser=boom">>, <<"f", "ser=lazy1">>, <<"f", "ser=missing">>,
     <<"f", "ser=late">>, <<"f", "omitempty", "ser=upper">>, <<"f", "mask=phone">>,
     <<"f", "string">>, <<"f", "ser=currency">>, <<"f", "precision=2">>,
     <<"f", "mask=phone", "precision=2", "string">>,
     <<"f", "ser=upper", "mask=phone", "precision=2", "string">>}

\* the options of a call
OptionSets ==
    [DisableLoggerInterface : BOOLEAN, DisableJSONFallback : BOOLEAN,
     OmitEmptyByDefault : BOOLEAN, MaskSensitive : BOOLEAN, EnableErrorFallback : BOOLEAN]
GraphOptionSets ==
    {o \in OptionSets : /\ ~o.DisableLoggerInterface /\ ~o.DisableJSONFallback
                        /\ ~o.OmitEmptyByDefault /\ ~o.MaskSensitive}

\* the programs and calls that are modelled:
\*   graph:  a pointer to object 1 of a graph of MaxObjs linked objects
\*   holder: a Holder (or a pointer to it) whose field F is declared with
\*           log tag tag, or with a json tag only, and holds fv
\*   top:    the value fv itself
GraphInputs ==
    [fam : {"graph"}, ty : [1..MaxObjs -> LinkTypes], nx : [1..MaxObjs -> 0..MaxObjs],
     o : GraphOptionSets]
\* (masking is for strings, and is tried on numbers and on a value with a
\* MarshalLog method; addressability is for structs, the order of iteration
\* for maps)
HolderInputs ==
    {in \in [fam : {"holder"}, tag : FieldTags, fv : FieldValues,
             root : {"value", "pointer"}, o : OptionSets] :
        /\ in.o.MaskSensitive => \/ in.fv.kind \in {"string", "int", "float"}
                                 \/ in.fv.v = One("LoggerT", "ab")
        /\ in.root = "pointer" => in.fv.kind = "struct"}
\* m := map[string]any{}; m["self"] = m and s := make([]any, 1); s[0] = s
SelfContaining == {Val("map", MapV(10)), Val("slice", SliceV(11))}
TopInputs ==
    {in \in [fam : {"top"},
             fv : FieldValues \cup {Val("interface", NilV)} \cup SelfContaining,
             o : OptionSets, rev : BOOLEAN] :
        /\ in.o.MaskSensitive => in.fv.kind = "string"
        /\ in.rev => in.fv.kind = "map"}
\* the json tags F is declared with in a JHolder (NoTag: no tag at all)
JsonTags == {NoTag, <<"f">>, <<"-">>, <<"f", "omitempty">>, <<"", "omitempty">>, <<"before">>}
\*   jholder: a JHolder whose field F is declared with json tag jtag and
\*            holds fv
JHolderInputs ==
    [fam : {"jholder"}, jtag : JsonTags, fv : FieldValues, root : {"value"},
     o : {o \in OptionSets : ~o.MaskSensitive}]
\* the log tags whose first segment is put to the test: empty, a key=value
\* option, or a name
NameTags ==
    {<<"">>, <<"", "omitempty">>, <<"ser=upper">>, <<"mask=phone", "omitempty">>,
     <<"f">>, <<"f", "omitempty">>, <<"f", "ser=upper">>}
\*   nholder: a Holder whose field F is declared with log tag tag, one of
\*            NameTags, and holds a string or an int
NHolderInputs ==
    [fam : {"nholder"}, tag : NameTags,
     fv : {Val("string", StrV(Text(str))) : str \in {"", "ab"}} \cup {Val("int", IntV(5))},
     root : {"value"}, o : {o \in OptionSets : ~o.MaskSensitive}]
Inputs == GraphInputs \cup HolderInputs \cup TopInputs \cup JHolderInputs \cup NHolderInputs

\* the declaration of F
HolderField(in) ==
    Fld("F", in.fv.kind, in.tag, IF in.tag = NoTag THEN <<"f">> ELSE NoTag)
HolderValue(in) ==
    StructV("Holder", <<StrV(Text("ab")), in.fv.v, IntV(5)>>)

JHolderValue(in) ==
    StructV("JHolder", <<StrV(Text("ab")), in.fv.v, IntV(5)>>)

InputTypes(in) ==
    IF in.fam \in {"holder", "nholder"} THEN Types(HolderField(in))
    ELSE IF in.fam = "jholder" THEN Types(Fld("F", in.fv.kind, NoTag, in.jtag))
    ELSE Types(Fld("F", "string", <<"f">>, NoTag))
InputHeap(in) ==
    CASE in.fam = "graph" -> GraphHeap(in.ty, in.nx)
      [] in.fam = "holder" -> FixHeap(HolderValue(in))
      [] in.fam = "top" -> FixHeap(NilV)
      [] in.fam = "jholder" -> FixHeap(JHolderValue(in))
      [] in.fam = "nholder" -> FixHeap(HolderValue(in))
\* the argument v of the call
InputValue(in) ==
    CASE in.fam = "graph" -> PtrV(in.ty[1], 1)
      [] in.fam = "holder" ->
            IF in.root = "pointer" THEN PtrV("Holder", HolderAddr) ELSE HolderValue(in)
      [] in.fam = "top" -> in.fv.v
      [] in.fam = "jholder" -> JHolderValue(in)
      [] in.fam = "nholder" -> HolderValue(in)
Ctx(in) ==
    [h |-> InputHeap(in), o |-> in.o, types |-> InputTypes(in),
     rev |-> IF in.fam = "top" THEN in.rev ELSE FALSE]

----------------------------------------------------------------------------
(* The debug store (package sdebug) as it is constructed                   *)

\* SDebugStorage: enabled; top, the sync.Map holding under topKey the
\* address of the sub-map and under lockKey{topKey} the number of its
\* RWMutex; the heap of sub-maps, of *int64 counters and of mutexes (each
\* with the goroutine holding it, 0: free); writing, the goroutine that is
\* in the middle of an assignment to each sub-map (0: none); mu; cacheMap
NewDebugInfo(enabled) ==
    [enabled |-> enabled,
     top |-> [subs |-> EmptyMap, locks |-> EmptyMap],
     maps |-> <<>>, counters |-> <<>>, lockHeld |-> <<>>, writing |-> <<>>,
     mu |-> 0,
     cacheMap |-> [x \in {"debug"} |-> BoolV(enabled)]]

----------------------------------------------------------------------------
(* The program: registrations and Marshal calls on the input               *)

\* the outcome of a call: st, the bytes by, the error err, the tree out, the
\* callbacks it made and the serializer names known when it started
Idle == [st |-> "idle"]
Running == call.st \notin {"panic", "overflow"}

\* the goroutines, none of which has called yet, and what init() and the
\* package-level declarations leave in the registries, cache and pool
Procs == 1..NProcs
NoCall == [op |-> "none"]
ThreadsInit ==
    /\ maskReg = [name \in {"phone", "email"} |->
                     IF name = "phone" THEN "phoneMask" ELSE "emailMask"]
    /\ fieldCache = EmptyMap
    /\ mu = [lazySerializersMu |-> 0, fieldCache |-> 0]
    /\ encoderPool = {}
    /\ encoders = <<>>
    /\ pc = [p \in Procs |-> "idle"]
    /\ loc = [p \in Procs |-> NoCall]
    /\ events = {}
    /\ storage = NewDebugInfo(TRUE)

\* the serializers registered when the program starts
RegistriesInit ==
    /\ serReg = [name \in {"upper", "boom"} |-> IF name = "upper" THEN "upperFn" ELSE "boomFn"]
    /\ lazySerializers = [name \in {"lazy1", "currency"} |->
                              IF name = "lazy1" THEN "factory1" ELSE "currencyFactory"]

Init ==
    /\ ThreadsInit
    /\ RegistriesInit
    /\ input \in Inputs
    /\ call = Idle

\* MarshalWithOpts(v, opts...)
Marshal ==
    /\ Running
    /\ \E r \in {MarshalWithOpts(Ctx(input), serReg, lazySerializers, InputValue(input))} :
          /\ call' = [st |-> r.st, by |-> r.by, err |-> r.err, out |-> r.out, calls |-> r.calls,
                       known |-> (DOMAIN serReg) \cup (DOMAIN lazySerializers),
                       vis |-> r.vis, marks |-> r.marks]
          /\ serReg' = r.reg
          /\ lazySerializers' = r.lazy
    /\ UNCHANGED <<input, threadVars>>

\* RegisterSerializer(name, fn)
RegisterSerializer(name, fn) ==
    /\ Running
    /\ serReg' = RegisterSerializerIn(serReg, name, fn)
    /\ UNCHANGED <<lazySerializers, input, call, threadVars>>

\* RegisterLazySerializer(name, factory)
RegisterLazySerializer(name, factory) ==
    /\ Running
    /\ lazySerializers' = Put(lazySerializers, name, factory)
    /\ UNCHANGED <<serReg, input, call, threadVars>>

Next ==
    \/ Marshal
    \/ RegisterSerializer("late", "lateFn")
    \/ RegisterLazySerializer("lazy1", "factory1")

Spec == Init /\ [][Next]_vars

----------------------------------------------------------------------------
(* Vocabulary of the properties                                            *)

Done == call.st # "idle"
Returned == call.st \in {"ok", "err"}
CyclicText == "cyclic reference detected"

\* the object reached from object a after k links (0: the chain has ended)
RECURSIVE Walk(_, _, _)
Walk(in, a, k) == IF k = 0 \/ a = 0 THEN a ELSE Walk(in, in.nx[a], k - 1)

\* the chain of links from the top-level pointer runs into a cycle
HasCycle(in) == Walk(in, 1, MaxObjs) # 0

\* the encoder descends through the link of every object of the chain: the
\* link is a log-tagged field (Node) or a json-tagged field of a type
\* without log tags (JNode), and ShouldLog hides no object of the chain
Descends(in) == \A k \in 0..(MaxObjs - 1) : in.ty[Walk(in, 1, k)] \in {"Node", "JNode"}

\* node is what the chain from object a on is to be emitted as, when the
\* link that closes the cycle becomes an error text and every other field
\* its normal value; seen: the objects of the chain before a
RECURSIVE CycleTree(_, _, _, _)
CycleTree(node, in, a, seen) ==
    IF a \in seen
        THEN node.k = "errstr" /\ TextContains(node.error, CyclicText)
        ELSE /\ node.k = "map"
             /\ DOMAIN node.m = {"name", "next"}
             /\ node.m["name"] = StrV(Text("n1"))
             /\ CycleTree(node.m["next"], in, in.nx[a], seen \cup {a})

----------------------------------------------------------------------------
(* Cycles                                                                  *)

\* C1 (as stated): for every input whose pointer graph contains a cycle,
\* Marshal with error-fallback disabled returns a non-nil error whose text
\* contains "cyclic reference detected".
C1_AnyCycleIsAnError ==
    (input.fam = "graph" /\ Done /\ HasCycle(input) /\ ~input.o.EnableErrorFallback)
        => (call.st = "err" /\ TextContains(ErrorText(call.err), CyclicText))

\* C1 (amended): Marshal returns on every pointer graph, cyclic or not; and
\* when the encoder descends through every link of a cycle, Marshal with
\* error-fallback disabled returns an error whose text contains "cyclic
\* reference detected".
C1_CycleDetected ==
    (input.fam = "graph" /\ Done)
        => /\ Returned
           /\ (HasCycle(input) /\ Descends(input) /\ ~input.o.EnableErrorFallback)
                 => (call.st = "err" /\ TextContains(ErrorText(call.err), CyclicText))

C1_Witness ==
    /\ input.fam = "graph" /\ HasCycle(input) /\ Descends(input)
    /\ Walk(input, 1, 1) # 1
    /\ ~input.o.EnableErrorFallback
    /\ call.st = "err" /\ TextContains(ErrorText(call.err), CyclicText)

\* C2 (as stated): for every cyclic pointer graph the encoder descends
\* through, Marshal with error-fallback enabled returns no error; the field
\* that closes the cycle is emitted as an error text naming the cyclic
\* reference and every sibling and ancestor field with its normal value,
\* in log-tag mode and in json-tag fallback mode alike.
C2_CycleBecomesErrorText ==
    (input.fam = "graph" /\ Done /\ HasCycle(input) /\ Descends(input)
        /\ input.o.EnableErrorFallback)
        => (call.st = "ok" /\ CycleTree(call.out, input, 1, {}))

----------------------------------------------------------------------------
(* Vocabulary of the properties about the field F of a Holder              *)

HolderOk == input.fam = "holder" /\ call.st = "ok"
Keys == DOMAIN call.out.m
FV == input.fv.v
Tagged == input.tag # NoTag
Dashed == input.tag = <<"-">>
HasSeg(seg) == \E i \in 2..Len(input.tag) : input.tag[i] = seg

\* the serializer the tag of F names ("": none)
SerName ==
    IF \E i \in 2..Len(input.tag) : HasPrefix(input.tag[i], "ser")
        THEN TrimPrefix(input.tag[CHOOSE i \in 2..Len(input.tag) : HasPrefix(input.tag[i], "ser")],
                        "ser")
        ELSE ""

\* v has a ShouldLog method; v has a MarshalLog method
CondTypes == {"CondT", "CondTag", "CondLog", "CNode"}
IsCond(v) == v.k \in {"struct", "ptr"} /\ v.t \in CondTypes
IsLogger(v) ==
    \/ v.k = "struct" /\ v.t \in {"LoggerT", "LoggerErr", "LoggerSp", "LoggerBad", "CondLog"}
    \/ v.k = "ptr" /\ v.t \in {"LoggerT", "LoggerErr", "LoggerSp", "LoggerBad", "CondLog", "PLogger"}
IsNilPtr(v) == v.k = "ptr" /\ v.a = 0
\* what ShouldLog of v answers (v is not a nil pointer)
Shows(v) == IF v.k = "ptr" THEN InputHeap(input)[v.a].f[2].b ELSE v.f[2].b
\* v hides itself
Suppressed(v) == IsCond(v) /\ ~IsNilPtr(v) /\ ~Shows(v)

\* omitempty applies to F and its value is empty
OmitApplies == HasSeg("omitempty") \/ input.o.OmitEmptyByDefault
\* v is an empty value: the empty string, 0, false, nil, a container
\* without elements, a struct of empty fields
RECURSIVE Empty(_)
Empty(v) ==
    CASE v.k = "str" -> v.s = <<>>
      [] v.k = "int" -> v.n = 0
      [] v.k = "bool" -> v.b = FALSE
      [] v.k = "ptr" -> v.a = 0
      [] v.k = "iface" -> v.v.k = "nil"
      [] v.k = "slice" -> v.a = 0 \/ InputHeap(input)[v.a].e = <<>>
      [] v.k = "map" -> v.a = 0 \/ DOMAIN InputHeap(input)[v.a].m = {}
      [] v.k = "struct" -> \A i \in 1..Len(v.f) : Empty(v.f[i])
      [] OTHER -> FALSE
\* F is an inline struct field
Inlined == HasSeg("inline") /\ input.fv.kind = "struct"
\* the value of F resolves to null
NullResult ==
    encodeReflect(Ctx(input), [vis |-> {}, marks |-> {}, reg |-> serReg, lazy |-> lazySerializers,
                               calls |-> {}],
                  FV, input.root = "pointer", MaxDepth).out.k = "null"
\* a callback op ran for field F
Called(op) == \E x \in call.calls : x.op = op /\ x.at = "F"
\* the neighbours of F are emitted with their normal values
NeighboursEmitted ==
    /\ {"before", "after"} \subseteq Keys
    /\ call.out.m["before"] =
          (IF input.o.MaskSensitive THEN StrV(defaultMask(Text("ab"))) ELSE StrV(Text("ab")))
    /\ call.out.m["after"] = IntV(5)

----------------------------------------------------------------------------
(* Tag mode                                                                *)

\* C3 (as stated): a struct with a log-tagged field has no key for a field
\* tagged - and has a key for every other log-tagged field that omitempty,
\* conditional suppression or a null result does not remove.
C3_EveryTaggedFieldHasAKey ==
    (HolderOk /\ Tagged)
        => /\ Dashed => Keys = {"before", "after"}
           /\ (~Dashed /\ ~(OmitApplies /\ Empty(FV)) /\ ~Suppressed(Interface(FV)) /\ ~NullResult)
                 => "f" \in Keys

\* C3 (amended): a struct with a log-tagged field has no key for a field
\* tagged - and has a key for every other log-tagged field that omitempty,
\* conditional suppression or a null result does not remove and that is
\* not an inline struct field (whose keys replace its own).
C3_TaggedFieldsEmitted ==
    (HolderOk /\ Tagged)
        => /\ {"before", "after"} \subseteq Keys
           /\ Dashed => Keys = {"before", "after"}
           /\ (~Dashed /\ ~(OmitApplies /\ Empty(FV)) /\ ~Suppressed(Interface(FV)) /\ ~NullResult
                 /\ ~Inlined)
                 => "f" \in Keys

C3_Witness ==
    /\ HolderOk /\ Dashed /\ FV = StrV(Text("ab"))
    /\ Keys = {"before", "after"}

\* C4 (as stated): in tag mode only log-tagged fields are emitted; a field
\* without a log tag contributes no key, also when it carries a json tag.
C4_OnlyLogTaggedFields ==
    (HolderOk /\ ~Tagged) => Keys \subseteq {"before", "after"}

----------------------------------------------------------------------------
(* The field priority chain                                                *)

\* the serializer SerName is registered when the call starts, and succeeds
SerRegistered == SerName # "" /\ SerName \in call.known
SerSucceeds == SerName # "boom" /\ (SerName = "currency" => toFloat64(Interface(FV)) = NoErr)
SerOutput(node) == node.k = "raw" /\ node.by.src = "ser"

TopLogger == input.fam = "top" /\ IsLogger(FV) /\ ~input.o.DisableLoggerInterface
Mlog == InputTypes(input)[FV.t].mlog
OnlyMarshalLogRan == \A x \in call.calls : x.op \in {"ShouldLog", "MarshalLog"} /\ x.at = ""

SerMissing == SerName # "" /\ SerName \notin call.known
NotFoundText(node) ==
    node.k = "errstr" /\ TextContains(node.error, SerName) /\ TextContains(node.error, "not found")

\* C7 (as stated): a tagged field whose serializer is in neither registry:
\* with error-fallback Marshal returns no error, the field is an error text
\* with the missing name and the other fields are emitted normally; without
\* it Marshal returns an error whose text contains "not found".
C7_MissingSerializerAlwaysReported ==
    (input.fam = "holder" /\ Returned /\ Tagged /\ SerMissing)
        => IF input.o.EnableErrorFallback
              THEN call.st = "ok" /\ "f" \in Keys /\ NotFoundText(call.out.m["f"])
                   /\ NeighboursEmitted
              ELSE call.st = "err" /\ TextContains(ErrorText(call.err), "not found")

\* C7 (amended): the same, for a field whose value has no ShouldLog method
\* and is not left out as empty.
C7_MissingSerializer ==
    (input.fam = "holder" /\ Done /\ Tagged /\ SerMissing
        /\ ~IsCond(Interface(FV)) /\ ~(OmitApplies /\ Empty(FV)))
        => IF input.o.EnableErrorFallback
              THEN call.st = "ok" /\ "f" \in Keys /\ NotFoundText(call.out.m["f"])
                   /\ NeighboursEmitted
              ELSE call.st = "err" /\ TextContains(ErrorText(call.err), "not found")

C7_Witness ==
    /\ HolderOk /\ SerName = "late" /\ SerMissing /\ "late" \in DOMAIN serReg
    /\ input.o.EnableErrorFallback
    /\ NotFoundText(call.out.m["f"])

----------------------------------------------------------------------------
(* Omit-empty and conditional suppression                                  *)

ShownElement == MapNode([key \in {"value", "show"} |->
                            IF key = "value" THEN StrV(Text("ab")) ELSE BoolV(TRUE)])
\* node is the tree of the container value v with its hidden elements left out
ShownOnly(node, v) ==
    CASE v = SliceV(3) -> node = ArrNode(<<ShownElement>>)
      [] v = MapV(4) -> node = MapNode([key \in {"b"} |-> ShownElement])
      [] OTHER -> TRUE

\* C9 (as stated): a value whose ShouldLog reports false is never emitted:
\* at top level the output is null; as a tagged field its key is absent and
\* neither its serializer nor its MarshalLog runs; as a slice element or a
\* map value it resolves to null instead of being encoded.
C9_HiddenValueNeverEmitted ==
    /\ (input.fam = "top" /\ Done /\ Suppressed(FV))
          => (call.st = "ok" /\ call.out.k = "null")
    /\ (HolderOk /\ Tagged /\ Suppressed(Interface(FV)))
          => ("f" \notin Keys /\ ~Called("serializer") /\ ~Called("MarshalLog"))
    /\ (input.fam = "top" /\ call.st = "ok" /\ ~input.o.DisableJSONFallback)
          => ShownOnly(call.out, FV)
    /\ (HolderOk /\ input.tag = <<"f">> /\ ~input.o.DisableJSONFallback)
          => ShownOnly(call.out.m["f"], FV)

\* what the generic fallback path (the json-tagged fields of the type)
\* makes of the struct behind v
Target(v) == IF v.k = "ptr" THEN InputHeap(input)[v.a] ELSE v
GenericFallback(v) ==
    encodeFallback(Ctx(input), [vis |-> {}, marks |-> {}, reg |-> serReg, lazy |-> lazySerializers,
                                calls |-> {}],
                   Target(v), getStructInfo(InputTypes(input)[v.t]).fields, 1, EmptyMap,
                   FALSE, MaxDepth).out

\* C10 (as stated): a tagged field whose value implements ShouldLog and
\* reports true is resolved as a whole struct through the generic-fallback
\* path: the log tags of the value's fields, the field's serializer and its
\* post-processing options play no part.
C10_ShownValueUsesGenericFallback ==
    (HolderOk /\ Tagged /\ ~Dashed /\ ~input.o.DisableJSONFallback
        /\ IsCond(Interface(FV)) /\ ~Suppressed(Interface(FV)))
        => ("f" \in Keys /\ call.out.m["f"] = GenericFallback(Interface(FV)))

----------------------------------------------------------------------------
(* Redaction of error strings                                              *)

\* the text sub occurs in text as a run of consecutive pieces
Occurs(sub, text) ==
    /\ Len(sub) > 0
    /\ \E i \in 1..(Len(text) - Len(sub) + 1) : SubSeq(text, i, i + Len(sub) - 1) = sub

\* the raw value of F as the error string would print it, and the verdict
\* of the sensitive-data heuristic on F
RawValue == safeValueToString(Ctx(input), FV)
Flagged == containsSensitiveData("F", RawValue)
ErrorStringAtF == HolderOk /\ Tagged /\ "f" \in Keys /\ call.out.m["f"].k = "errstr"

\* C11 (as stated): when the error string of a field is built for a value
\* that the sensitive-data heuristic flags, the value part is <sensitive>
\* and the raw value occurs in neither the value part nor the error part.
C11_FlaggedValueNowhereInErrorString ==
    (ErrorStringAtF /\ Flagged)
        => /\ call.out.m["f"].value = <<"<sensitive>">>
           /\ ~Occurs(RawValue, call.out.m["f"].value)
           /\ ~Occurs(RawValue, call.out.m["f"].error)

----------------------------------------------------------------------------
(* Concurrent registrations.  Each goroutine makes one call: a             *)
(* RegisterSerializer or RegisterMask, which is a LoadOrStore on the       *)
(* sync.Map followed, when the name was there, by a Store; or a lookup,    *)
(* which is one Load.  The function a goroutine passes is its own.         *)

\* no Marshal call is under way
NoInput == [fam |-> "none"]
ProgramIdle == input = NoInput /\ call = Idle

FnOf(p) == "fn" \o ToString(p)
DoneProcs == {q \in Procs : pc[q] = "done"}
RegNames == {"", "late"}

\* the sync.Map behind a registry, and its update
Registry(kind) == IF kind = "mask" THEN maskReg ELSE serReg
SetRegistry(kind, reg) ==
    IF kind = "mask" THEN maskReg' = reg /\ UNCHANGED serReg
    ELSE serReg' = reg /\ UNCHANGED maskReg

\* RegisterSerializer(name, fn) / RegisterMask(name, fn) is entered: an empty
\* name returns at once; ret is where the goroutine goes on afterwards
RegisterEnter(p, kind, name) ==
    /\ pc[p] = "idle"
    /\ loc' = [loc EXCEPT ![p] = [op |-> "Register", kind |-> kind, name |-> name,
                                  fn |-> FnOf(p), after |-> DoneProcs, ret |-> "done"]]
    /\ pc' = [pc EXCEPT ![p] = IF name = "" THEN "done" ELSE "LoadOrStore"]
    /\ UNCHANGED <<serReg, maskReg, lazySerializers, input, call, storage, fieldCache, mu,
                   encoderPool, encoders, events>>

\* a registration that keeps the entry it finds: no overwrite follows
StoreIfAbsent(p) ==
    /\ pc[p] = "LoadOrStore"
    /\ pc' = [pc EXCEPT ![p] = loc[p].ret]
    /\ IF loc[p].name \in DOMAIN Registry(loc[p].kind)
          THEN UNCHANGED <<serReg, maskReg>>
          ELSE SetRegistry(loc[p].kind, Put(Registry(loc[p].kind), loc[p].name, loc[p].fn))
    /\ UNCHANGED <<lazySerializers, input, call, storage, fieldCache, mu, encoderPool,
                   encoders, loc, events>>

\* reg.LoadOrStore(name, fn)
LoadOrStore(p) ==
    /\ pc[p] = "LoadOrStore"
    /\ IF loc[p].name \in DOMAIN Registry(loc[p].kind)
          THEN /\ pc' = [pc EXCEPT ![p] = "Store"]
               /\ UNCHANGED <<serReg, maskReg>>
          ELSE /\ pc' = [pc EXCEPT ![p] = loc[p].ret]
               /\ SetRegistry(loc[p].kind, Put(Registry(loc[p].kind), loc[p].name, loc[p].fn))
    /\ UNCHANGED <<lazySerializers, input, call, storage, fieldCache, mu, encoderPool,
                   encoders, loc, events>>

\* reg.Store(name, fn), the overwrite
Store(p) ==
    /\ pc[p] = "Store"
    /\ pc' = [pc EXCEPT ![p] = loc[p].ret]
    /\ SetRegistry(loc[p].kind, Put(Registry(loc[p].kind), loc[p].name, loc[p].fn))
    /\ UNCHANGED <<lazySerializers, input, call, storage, fieldCache, mu, encoderPool,
                   encoders, loc, events>>

\* getSer(name) / getMask(name): reg.Load(name)
Load(p, kind, name) ==
    /\ pc[p] = "idle"
    /\ loc' = [loc EXCEPT ![p] = [op |-> "Load", kind |-> kind, name |-> name,
                                  after |-> DoneProcs,
                                  found |-> name \in DOMAIN Registry(kind)]]
    /\ pc' = [pc EXCEPT ![p] = "done"]
    /\ UNCHANGED <<serReg, maskReg, lazySerializers, input, call, storage, fieldCache, mu,
                   encoderPool, encoders, events>>

RegInit == ThreadsInit /\ RegistriesInit /\ ProgramIdle

RegNext ==
    \E p \in Procs :
        \/ \E kind \in {"ser", "mask"}, name \in RegNames : RegisterEnter(p, kind, name)
        \/ LoadOrStore(p)
        \/ Store(p)
        \/ \E kind \in {"ser", "mask"} : Load(p, kind, "late")

RegSpec == RegInit /\ [][RegNext]_vars

\* goroutine p registers name in the registry kind; it has returned
Registers(p, kind, name) ==
    loc[p].op = "Register" /\ loc[p].kind = kind /\ loc[p].name = name
Finished(p) == pc[p] = "done"
Registrars(kind, name) == {p \in Procs : Registers(p, kind, name)}

\* C12 (as stated): once every registration of a name has returned, the
\* name is mapped to the function of one of them, and when one registration
\* returned before another started (which none followed), the function of
\* the later one is the one stored.
C12_LaterRegistrationStored ==
    \A kind \in {"ser", "mask"} :
        (Registrars(kind, "late") # {} /\ \A r \in Registrars(kind, "late") : Finished(r))
            => /\ \E p \in Registrars(kind, "late") : Registry(kind)["late"] = FnOf(p)
               /\ \A p, q \in Registrars(kind, "late") :
                     (/\ p \in loc[q].after
                      /\ \A r \in Registrars(kind, "late") : q \notin loc[r].after)
                         => Registry(kind)["late"] = FnOf(q)

\* C12 (amended): registrations are last-write-wins under any interleaving.  For
\* each registry and non-empty name: the name is never mapped to anything
\* but a function passed by one of the registrations made; once all
\* registrations under way have returned it is mapped to one of them; a
\* registration that returned before another started has lost its entry
\* when the later one returns; and a lookup that starts after a
\* registration returned finds the name.
C12_LastWriteWins ==
    \A kind \in {"ser", "mask"} :
        /\ "late" \in DOMAIN Registry(kind)
              => \E p \in Registrars(kind, "late") : Registry(kind)["late"] = FnOf(p)
        /\ (Registrars(kind, "late") # {} /\ \A p \in Registrars(kind, "late") : Finished(p))
              => "late" \in DOMAIN Registry(kind)
        /\ \A p, q \in Registrars(kind, "late") :
              (p \in loc[q].after /\ Finished(q)) => Registry(kind)["late"] # FnOf(p)
        /\ \A l \in Procs :
              (/\ loc[l].op = "Load" /\ loc[l].kind = kind
               /\ loc[l].after \cap Registrars(kind, "late") # {})
                  => loc[l].found
        /\ "" \notin DOMAIN Registry(kind)

\* a third registration overtakes two that ran one after the other
C12_Witness ==
    /\ Registrars("ser", "late") = Procs /\ \A p \in Procs : Finished(p)
    /\ 1 \in loc[2].after /\ loc[3].after = {} /\ loc[1].after = {}
    /\ serReg["late"] = FnOf(3)

----------------------------------------------------------------------------
(* Concurrent first lookups of lazily registered serializers.  Each        *)
(* goroutine makes one getLazySerializer(name) call, statement by          *)
(* statement; the read under RLock is one step.                            *)

\* the names looked up: two lazily registered ones and one unknown
LazyNames == {"lazy1", "currency", "missing"}

\* getLazySerializer(name) is entered and looks in the main registry
GetLazyEnter(p, name) ==
    /\ pc[p] = "idle"
    /\ loc' = [loc EXCEPT ![p] = [op |-> "getLazySerializer", kind |-> "ser", name |-> name,
                                  after |-> DoneProcs, ok |-> getSer(serReg, name).ok,
                                  fn |-> getSer(serReg, name).fn, factory |-> "",
                                  mutex |-> "lazySerializersMu", ret |-> "Delete"]]
    /\ pc' = [pc EXCEPT ![p] = IF getSer(serReg, name).ok THEN "done" ELSE "RLock"]
    /\ UNCHANGED <<serReg, maskReg, lazySerializers, input, call, storage, fieldCache, mu,
                   encoderPool, encoders, events>>

\* RLock; factory, exists := lazySerializers[name]; RUnlock
RLockRead(p) ==
    /\ pc[p] = "RLock"
    /\ mu.lazySerializersMu = 0
    /\ IF loc[p].name \in DOMAIN lazySerializers
          THEN /\ loc' = [loc EXCEPT ![p].factory = lazySerializers[loc[p].name]]
               /\ pc' = [pc EXCEPT ![p] = "Lock"]
          ELSE /\ pc' = [pc EXCEPT ![p] = "done"]
               /\ UNCHANGED loc
    /\ UNCHANGED <<serReg, maskReg, lazySerializers, input, call, storage, fieldCache, mu,
                   encoderPool, encoders, events>>

\* Lock() of the mutex the call is about to take
Lock(p) ==
    /\ pc[p] = "Lock"
    /\ mu[loc[p].mutex] = 0
    /\ mu' = [mu EXCEPT ![loc[p].mutex] = p]
    /\ pc' = [pc EXCEPT ![p] = "DoubleCheck"]
    /\ UNCHANGED <<serReg, maskReg, lazySerializers, input, call, storage, fieldCache, encoderPool,
                   encoders, loc, events>>

\* a lookup that goes on to the factory without looking again
NoDoubleCheck(p) ==
    /\ pc[p] = "DoubleCheck" /\ loc[p].op = "getLazySerializer"
    /\ pc' = [pc EXCEPT ![p] = "Factory"]
    /\ UNCHANGED <<serReg, maskReg, lazySerializers, input, call, storage, fieldCache, mu,
                   encoderPool, encoders, loc, events>>

\* the second getSer(name), under the write lock; the deferred Unlock
DoubleCheck(p) ==
    /\ pc[p] = "DoubleCheck" /\ loc[p].op = "getLazySerializer"
    /\ IF getSer(serReg, loc[p].name).ok
          THEN /\ loc' = [loc EXCEPT ![p].ok = TRUE, ![p].fn = getSer(serReg, loc[p].name).fn]
               /\ pc' = [pc EXCEPT ![p] = "done"]
               /\ mu' = [mu EXCEPT !.lazySerializersMu = 0]
          ELSE /\ pc' = [pc EXCEPT ![p] = "Factory"]
               /\ UNCHANGED <<loc, mu>>
    /\ UNCHANGED <<serReg, maskReg, lazySerializers, input, call, storage, fieldCache, encoderPool,
                   encoders, events>>

\* serializerFunc := factory(); RegisterSerializer(name, serializerFunc) is
\* entered
Factory(p) ==
    /\ pc[p] = "Factory"
    /\ loc' = [loc EXCEPT ![p].ok = TRUE, ![p].fn = FactoryResult(loc[p].factory)]
    /\ events' = events \cup {[ev |-> "factory", on |-> loc[p].name, by |-> p]}
    /\ pc' = [pc EXCEPT ![p] = "LoadOrStore"]
    /\ UNCHANGED <<serReg, maskReg, lazySerializers, input, call, storage, fieldCache, mu,
                   encoderPool, encoders>>

\* delete(lazySerializers, name); return (the deferred Unlock)
Delete(p) ==
    /\ pc[p] = "Delete"
    /\ lazySerializers' = [x \in (DOMAIN lazySerializers) \ {loc[p].name} |-> lazySerializers[x]]
    /\ mu' = [mu EXCEPT !.lazySerializersMu = 0]
    /\ pc' = [pc EXCEPT ![p] = "done"]
    /\ UNCHANGED <<serReg, maskReg, input, call, storage, fieldCache, encoderPool, encoders, loc,
                   events>>

LazyInit == ThreadsInit /\ RegistriesInit /\ ProgramIdle

\* lookups, and eager registrations of the lazily registered name currency
LazyNext ==
    \E p \in Procs :
        \/ \E name \in LazyNames : GetLazyEnter(p, name)
        \/ RegisterEnter(p, "ser", "currency")
        \/ RLockRead(p)
        \/ Lock(p)
        \/ DoubleCheck(p)
        \/ Factory(p)
        \/ LoadOrStore(p)
        \/ Store(p)
        \/ Delete(p)

LazySpec == LazyInit /\ [][LazyNext]_vars

\* the factory calls made for a name; the goroutines that looked it up
FactoryCalls(name) == {e \in events : e.ev = "factory" /\ e.on = name}
Lookups(name) == {p \in Procs : loc[p].op = "getLazySerializer" /\ loc[p].name = name}

\* C13: for a lazily registered name, however many first lookups run
\* concurrently (and whether or not the name is also registered eagerly
\* meanwhile), the factory is invoked at most once; when the lookup that
\* invoked it has returned, the name is in the eager registry and the lazy
\* entry is gone.  For a name that is registered lazily only, the factory
\* is invoked exactly once as soon as one lookup has returned; the function
\* it made is then in the eager registry, and is the one a lookup that
\* finds the name returns.
C13_FactoryInvokedOnce ==
    /\ \A name \in {"lazy1", "currency"} :
          /\ Cardinality(FactoryCalls(name)) <= 1
          /\ \A e \in FactoryCalls(name) :
                Finished(e.by) => name \in DOMAIN serReg /\ name \notin DOMAIN lazySerializers
    /\ \A p \in Lookups("lazy1") :
          Finished(p)
              => /\ Cardinality(FactoryCalls("lazy1")) = 1
                 /\ "lazy1" \in DOMAIN serReg
                 /\ serReg["lazy1"] = FactoryResult("factory1")
                 /\ loc[p].ok => loc[p].fn = serReg["lazy1"]

\* three goroutines looked up the same name at once, one made the function
C13_Witness ==
    /\ Lookups("lazy1") = Procs /\ \A p \in Procs : Finished(p) /\ loc[p].after = {}
    /\ FactoryCalls("lazy1") = {[ev |-> "factory", on |-> "lazy1", by |-> 2]}
    /\ loc[1].factory = "factory1" /\ loc[3].factory = "factory1"

----------------------------------------------------------------------------
(* Concurrent first encodes of a struct type: the struct metadata cache.   *)
(* Each goroutine makes one e.getStructInfo(rt) call.  fieldCache.m is     *)
(* only touched under the cache's lock, so the read under RLock is one     *)
(* step and so is the part under the write lock.  A structInfo is a        *)
(* pointer: it is known by the goroutine that allocated it.                *)

CacheTypes == {"Node", "JNode"}
CacheDecl(rt) == Types(Fld("F", "string", <<"f">>, NoTag))[rt]

\* getStructInfo(rt) is entered: RLock; info, ok := fieldCache.m[rt]; RUnlock
CacheRead(p, rt) ==
    /\ pc[p] = "idle"
    /\ mu.fieldCache = 0
    /\ loc' = [loc EXCEPT ![p] = [op |-> "getStructInfo", rt |-> rt, after |-> DoneProcs,
                                  info |-> IF rt \in DOMAIN fieldCache THEN fieldCache[rt]
                                           ELSE NoCall,
                                  mutex |-> "fieldCache"]]
    /\ pc' = [pc EXCEPT ![p] = IF rt \in DOMAIN fieldCache THEN "done" ELSE "Lock"]
    /\ UNCHANGED <<serReg, maskReg, lazySerializers, input, call, storage, fieldCache, mu,
                   encoderPool, encoders, events>>

\* a build that does not look in the cache again
BuildUnchecked(p) ==
    /\ pc[p] = "DoubleCheck" /\ loc[p].op = "getStructInfo"
    /\ loc' = [loc EXCEPT ![p].info = [by |-> p, info |-> getStructInfo(CacheDecl(loc[p].rt))]]
    /\ fieldCache' = Put(fieldCache, loc[p].rt,
                         [by |-> p, info |-> getStructInfo(CacheDecl(loc[p].rt))])
    /\ events' = events \cup {[ev |-> "build", on |-> loc[p].rt, by |-> p]}
    /\ mu' = [mu EXCEPT !.fieldCache = 0]
    /\ pc' = [pc EXCEPT ![p] = "done"]
    /\ UNCHANGED <<serReg, maskReg, lazySerializers, input, call, storage, encoderPool, encoders>>

\* under the write lock: the double check, else the analysis of the fields
\* and fieldCache.m[rt] = info; the deferred Unlock
Build(p) ==
    /\ pc[p] = "DoubleCheck" /\ loc[p].op = "getStructInfo"
    /\ IF loc[p].rt \in DOMAIN fieldCache
          THEN /\ loc' = [loc EXCEPT ![p].info = fieldCache[loc[p].rt]]
               /\ UNCHANGED <<fieldCache, events>>
          ELSE /\ loc' = [loc EXCEPT ![p].info =
                               [by |-> p, info |-> getStructInfo(CacheDecl(loc[p].rt))]]
               /\ fieldCache' = Put(fieldCache, loc[p].rt,
                                    [by |-> p, info |-> getStructInfo(CacheDecl(loc[p].rt))])
               /\ events' = events \cup {[ev |-> "build", on |-> loc[p].rt, by |-> p]}
    /\ mu' = [mu EXCEPT !.fieldCache = 0]
    /\ pc' = [pc EXCEPT ![p] = "done"]
    /\ UNCHANGED <<serReg, maskReg, lazySerializers, input, call, storage, encoderPool, encoders>>

CacheInit == ThreadsInit /\ RegistriesInit /\ ProgramIdle

CacheNext ==
    \E p \in Procs :
        \/ \E rt \in CacheTypes : CacheRead(p, rt)
        \/ Lock(p)
        \/ Build(p)

CacheSpec == CacheInit /\ [][CacheNext]_vars

\* the builds made of a type
Builds(rt) == {e \in events : e.ev = "build" /\ e.on = rt}

\* C14: under any interleaving of concurrent first encodes of a type the
\* metadata is built at most once, and exactly once as soon as a caller
\* has returned; what the cache holds for the type is that one build, the
\* metadata of the type's declaration, so it is never replaced; and every
\* caller that has returned got that same structInfo.
C14_StructInfoBuiltOnce ==
    \A rt \in CacheTypes :
        /\ Cardinality(Builds(rt)) <= 1
        /\ (rt \in DOMAIN fieldCache) = (Builds(rt) # {})
        /\ rt \in DOMAIN fieldCache
              => /\ Builds(rt) = {[ev |-> "build", on |-> rt, by |-> fieldCache[rt].by]}
                 /\ fieldCache[rt].info = getStructInfo(CacheDecl(rt))
        /\ \A p \in Procs :
              (loc[p].op = "getStructInfo" /\ loc[p].rt = rt /\ Finished(p))
                  => rt \in DOMAIN fieldCache /\ loc[p].info = fieldCache[rt]

\* three goroutines met at the first encode of one type; one built it
C14_Witness ==
    /\ \A p \in Procs : Finished(p) /\ loc[p].op = "getStructInfo" /\ loc[p].rt = "Node"
                          /\ loc[p].after = {} /\ loc[p].info.by = 3
    /\ fieldCache["Node"].info.hasLogTag

----------------------------------------------------------------------------
(* The visited set along the descent                                       *)

\* the objects on the chain of a graph from the top-level pointer down to
\* object a
RECURSIVE PathTo(_, _, _)
PathTo(in, a, from) ==
    IF from = a \/ from = 0 THEN {from} ELSE {from} \cup PathTo(in, a, in.nx[from])

\* the pointers on the descent path when the subtree of ptr is entered: in a
\* graph the chain down to it; elsewhere every pointer is met directly under
\* a value that is not a pointer
DescentPath(in, ptr) == IF in.fam = "graph" THEN PathTo(in, ptr, 1) ELSE {ptr}

\* the slice whose two elements are the same pointer
Siblings == SliceV(9)
SiblingsEncoded(node) ==
    /\ node.k = "arr"
    /\ Len(node.e) = 2
    /\ node.e[1] = node.e[2]
    /\ node.e[1] = MapNode([key \in {"value", "show"} |->
                               IF key = "value" THEN StrV(Text("ab")) ELSE BoolV(TRUE)])

\* C15: each time the subtree of a pointer is entered the visited set holds
\* exactly the pointers on the descent path down to that pointer; when the
\* call is over, with bytes, an error or a panic, the set is empty; and a
\* slice whose two elements are the same pointer is encoded with the
\* pointed-to struct at both places.
C15_VisitedIsDescentPath ==
    call.st # "idle"
        => /\ call.vis = {}
           /\ \A x \in call.marks : x.vis = DescentPath(input, x.ptr)
           /\ (input.fam = "top" /\ input.fv.v = Siblings /\ ~input.o.DisableJSONFallback)
                 => call.st = "ok" /\ SiblingsEncoded(call.out)
           /\ (/\ input.fam = "holder" /\ input.fv.v = Siblings /\ input.tag = <<"f">>
               /\ ~input.o.DisableJSONFallback)
                 => call.st = "ok" /\ SiblingsEncoded(call.out.m["f"])

\* the slice of two equal pointers was encoded: the pointer was entered with
\* itself alone in the visited set
C15_Witness ==
    /\ input.fam = "top" /\ input.fv.v = Siblings /\ ~input.o.DisableJSONFallback
    /\ call.st = "ok" /\ SiblingsEncoded(call.out)
    /\ call.marks = {[ptr |-> 1, vis |-> {1}]}
    /\ call.vis = {}

----------------------------------------------------------------------------
(* Concurrent Marshal calls and the encoder pool.  encoders[id] is the     *)
(* encoder allocated as number id, encoderPool the encoders lying in the   *)
(* pool.  Each goroutine makes one MarshalWithOpts call: newEncoder, the   *)
(* options, encode (which enters a pointer and comes back), and the        *)
(* deferred releaseEncoder.                                                *)

MaxEncoders == 3

\* &encoder{visited: make(map[uintptr]bool)}
FreshEncoder == [out |-> Null, opts |-> {}, visited |-> {}]

\* a pool that hands an encoder out and keeps it
PoolPeek(pool, id) == pool
\* encoderPool.Get() handing out the pooled encoder id
PoolGet(pool, id) == pool \ {id}

\* the goroutines between newEncoder and releaseEncoder
InUse(p) == pc[p] \in {"SetOpts", "EncodeEnter", "EncodeReturn", "releaseEncoder"}

\* newEncoder(): Get hands out a pooled encoder, or one made by New (the
\* pool is free to be empty at any time); then out, opts and visited are
\* reset
newEncoder(p) ==
    /\ pc[p] = "idle"
    /\ \E id \in encoderPool \cup {Len(encoders) + 1} :
          /\ id <= MaxEncoders
          /\ encoderPool' = PoolGet(encoderPool, id)
          /\ encoders' = IF id > Len(encoders) THEN Append(encoders, FreshEncoder)
                          ELSE [encoders EXCEPT ![id] = FreshEncoder]
          /\ loc' = [loc EXCEPT ![p] = [op |-> "MarshalWithOpts", enc |-> id, after |-> DoneProcs,
                                        st |-> "running"]]
    /\ pc' = [pc EXCEPT ![p] = "SetOpts"]
    /\ UNCHANGED <<serReg, maskReg, lazySerializers, input, call, storage, fieldCache, mu, events>>

\* enc.opts = options
SetOpts(p) ==
    /\ pc[p] = "SetOpts"
    /\ encoders' = [encoders EXCEPT ![loc[p].enc].opts = {DefaultOptions}]
    /\ pc' = [pc EXCEPT ![p] = "EncodeEnter"]
    /\ UNCHANGED <<serReg, maskReg, lazySerializers, input, call, storage, fieldCache, mu,
                   encoderPool, loc, events>>

\* enc.encode(v) on a pointer: the pointer is entered
EncodeEnter(p) ==
    /\ pc[p] = "EncodeEnter"
    /\ encoders' = [encoders EXCEPT ![loc[p].enc].visited = MarkVisited(@, p)]
    /\ pc' = [pc EXCEPT ![p] = "EncodeReturn"]
    /\ UNCHANGED <<serReg, maskReg, lazySerializers, input, call, storage, fieldCache, mu,
                   encoderPool, loc, events>>

\* enc.encode(v) comes back, having set enc.out, or with an error or a panic
EncodeReturn(p, st) ==
    /\ pc[p] = "EncodeReturn"
    /\ encoders' = [encoders EXCEPT ![loc[p].enc].visited = Unvisit(@, p),
                                    ![loc[p].enc].out = IF st = "ok" THEN MapNode(EmptyMap)
                                                        ELSE @]
    /\ loc' = [loc EXCEPT ![p].st = st]
    /\ pc' = [pc EXCEPT ![p] = "releaseEncoder"]
    /\ UNCHANGED <<serReg, maskReg, lazySerializers, input, call, storage, fieldCache, mu,
                   encoderPool, events>>

\* defer releaseEncoder(enc): cleared, and put back
releaseEncoder(p) ==
    /\ pc[p] = "releaseEncoder"
    /\ encoders' = [encoders EXCEPT ![loc[p].enc] = [@ EXCEPT !.out = Null, !.opts = {},
                                                               !.visited = {}]]
    /\ encoderPool' = encoderPool \cup {loc[p].enc}
    /\ pc' = [pc EXCEPT ![p] = "done"]
    /\ UNCHANGED <<serReg, maskReg, lazySerializers, input, call, storage, fieldCache, mu,
                   loc, events>>

PoolInit == ThreadsInit /\ RegistriesInit /\ ProgramIdle

PoolNext ==
    \E p \in Procs :
        \/ newEncoder(p)
        \/ SetOpts(p)
        \/ EncodeEnter(p)
        \/ \E st \in {"ok", "err", "panic"} : EncodeReturn(p, st)
        \/ releaseEncoder(p)

PoolSpec == PoolInit /\ [][PoolNext]_vars

\* C16: the encoder newEncoder has just handed out has no output node, no
\* options and an empty visited set; no encoder is held by two calls at the
\* same time, and an encoder that is held is not lying in the pool.
C16_EncoderCleanAndOwned ==
    \A p \in Procs :
        /\ pc[p] = "SetOpts" => encoders[loc[p].enc] = FreshEncoder
        /\ InUse(p) => loc[p].enc \notin encoderPool
        /\ \A q \in Procs \ {p} : (InUse(p) /\ InUse(q)) => loc[p].enc # loc[q].enc

\* goroutine 2 has just been handed the encoder that the call of goroutine
\* 1 used and left with an error, while goroutine 3 is in the middle of
\* its own call
C16_Witness ==
    /\ pc[1] = "done" /\ loc[1].st = "err"
    /\ pc[2] = "SetOpts" /\ loc[2].enc = loc[1].enc /\ loc[2].after = {1}
    /\ pc[3] = "EncodeReturn" /\ loc[3].enc # loc[2].enc
    /\ encoders[loc[2].enc] = FreshEncoder

----------------------------------------------------------------------------
(* A nil top-level value                                                   *)

\* the argument of the call is an untyped nil or a nil pointer
NilTopLevel ==
    /\ input.fam = "top"
    /\ \/ input.fv.v = NilV
       \/ input.fv.v.k = "ptr" /\ input.fv.v.a = 0

\* C17: Marshal of an untyped nil or of a nil pointer, whatever the methods
\* of the pointer's type, returns the bytes null and a nil error.
C17_NilTopLevelIsNull ==
    (NilTopLevel /\ call.st # "idle") => (call.st = "ok" /\ call.by = Null)

----------------------------------------------------------------------------
(* Post-processing                                                         *)

\* the value of F after the mask, after the rounding, after the forced
\* string, when F holds a string, a number or a bool
MaskedFV ==
    IF FV.k = "str" /\ (HasSeg("mask=phone") \/ input.o.MaskSensitive)
        THEN StrV(IF HasSeg("mask=phone") THEN phoneMask(FV.s) ELSE defaultMask(FV.s))
        ELSE FV
RoundedFV ==
    IF HasSeg("precision=2") /\ MaskedFV.k = "float" THEN FloatV(RoundTo(MaskedFV.m, 2))
    ELSE MaskedFV
StringedFV == IF HasSeg("string") THEN Sprintf(RoundedFV) ELSE RoundedFV

\* MarshalLog of the value of F was called and returned bytes
FieldMarshalLog ==
    /\ SerName = "" /\ FV.k \in {"struct", "ptr"} /\ ~Inlined
    /\ \E x \in call.calls : x.op = "MarshalLog" /\ x.on = FV.t
    /\ InputTypes(input)[FV.t].mlog # "err"

\* C18: a string, number or bool field without serializer is emitted as the
\* forced string of the rounding of the mask of its value; the output of a
\* named serializer, and the bytes MarshalLog returned for the field's
\* value, are emitted as they are, whatever mask=, precision= and string the
\* tag carries and whether the mask-sensitive switch is on or off.
C18_PostProcessingOnlyOnGeneralResults ==
    (HolderOk /\ Tagged /\ ~Dashed /\ ~(OmitApplies /\ Empty(FV)))
        => /\ (SerName = "" /\ FV.k \in {"str", "int", "bool", "float"})
                 => "f" \in Keys /\ call.out.m["f"] = StringedFV
           /\ (SerRegistered /\ SerSucceeds /\ ~IsCond(Interface(FV)))
                 => "f" \in Keys /\ SerOutput(call.out.m["f"])
           /\ FieldMarshalLog
                 => /\ "f" \in Keys
                    /\ call.out.m["f"] =
                          RawMessage(Bytes("MarshalLog", FV.t, InputTypes(input)[FV.t].mlog))

----------------------------------------------------------------------------
(* The built-in masks on their own: getMask(name)(s) for the two           *)
(* registered names and for a name that is not registered, on every string *)
(* of up to ShortLen bytes over a letter, @ and *, and every string of up  *)
(* to MaxMaskLen bytes over a letter and *                                 *)

ShortLen == 6
MaxMaskLen == 11

MaskStrings ==
    UNION {[1..n -> {"a", "@", "*"}] : n \in 1..ShortLen}
    \cup UNION {[1..n -> {"a", "*"}] : n \in (ShortLen + 1)..MaxMaskLen}
MaskInputs == [fam : {"mask"}, name : {"phone", "email", "nomask"}, s : MaskStrings]

MaskInit == ThreadsInit /\ RegistriesInit /\ input \in MaskInputs /\ call = Idle

\* getMask(name)(s)
ApplyMask ==
    /\ call = Idle
    /\ call' = [st |-> "ok", out |-> getMask(input.name, input.s)]
    /\ UNCHANGED <<serReg, lazySerializers, input, threadVars>>

MaskSpec == MaskInit /\ [][ApplyMask]_vars

Masked == call.st = "ok"
HasStar(str) == \E i \in 1..Len(str) : str[i] = "*"

\* C19 (as stated): the output of the phone mask, the email mask and the
\* default mask never contains the input string as a substring.
C19_MaskNeverContainsInput ==
    Masked => ~Occurs(input.s, call.out)

\* C19 (amended): for an input string without an asterisk, the output of
\* the phone mask, the email mask and the default mask does not contain the
\* input string as a substring.
C19_MaskHidesStarFreeInput ==
    (Masked /\ ~HasStar(input.s)) => ~Occurs(input.s, call.out)

\* an 11-byte number went through the phone mask
C19_Witness ==
    /\ Masked /\ input.name = "phone" /\ input.s = [i \in 1..11 |-> "a"]
    /\ call.out = <<"a", "a", "a", "*", "*", "*", "*", "a", "a", "a", "a">>
    /\ ~Occurs(input.s, call.out)

----------------------------------------------------------------------------
(* Generic fallback: a struct without log tags and without MarshalLog or   *)
(* MarshalJSON                                                             *)

JHolderOk == input.fam = "jholder" /\ call.st = "ok"
JName == input.jtag[1]
JOmitEmpty == \E i \in 2..Len(input.jtag) : input.jtag[i] = "omitempty"
\* F is json-tagged, not named -, not left out as empty, not null
FQualifies ==
    /\ input.jtag # NoTag
    /\ JName # "-"
    /\ ~(JOmitEmpty /\ Empty(FV))
    /\ ~NullResult
\* the struct without any tag, as a top-level value
Untagged == input.fam = "top" /\ FV = One("Plain", "ab") /\ call.st = "ok"

----------------------------------------------------------------------------
(* The debug store under concurrent calls (package sdebug)                 *)
(* Each goroutine makes one call: Set, Incr, Store, Peek or ToMap.  The    *)
(* operations of sync.Map and the atomics are one step each; the body a    *)
(* writer runs under the sub-map's lock is two steps, the assignment to    *)
(* the sub-map being in progress between them.  A read of a sub-map that   *)
(* falls between the two is a data race: it yields the map before the      *)
(* assignment, the map after it, or the runtime's fatal error.             *)

DebugTop == "k"
SubKeys == {"c", "v", ""}
DebugWrites ==
    {[f |-> "Set", topKey |-> DebugTop, subKey |-> sk, val |-> IntV(7)] : sk \in SubKeys}
        \cup {[f |-> "Set", topKey |-> "", subKey |-> "v", val |-> IntV(7)]}
        \cup {[f |-> "Incr", topKey |-> DebugTop, subKey |-> "c", val |-> n] : n \in {1, 2}}
        \cup {[f |-> "Store", topKey |-> DebugTop, subKey |-> "c", val |-> 5]}

\* a store that never reports itself disabled
NeverDisabled(d) == FALSE

\* d.disabled()
disabled(d) == ~d.enabled

\* a branch that never finds the counter
NoCounter(sub, subKey) == FALSE

\* the branch of atomicCounterOp that finds the counter in the sub-map
HasCounter(sub, subKey) == subKey \in DOMAIN sub /\ sub[subKey].k = "ptr"

\* deepCopyValue on the values stored here (basic types and *int64 are
\* returned as they are), and deepCopyMap
deepCopyValue(v) == v
deepCopyMap(m) == [x \in DOMAIN m |-> deepCopyValue(m[x])]

\* fn(ptr): atomic.AddInt64(ptr, delta) or atomic.StoreInt64(ptr, val)
CounterFn(op, n) == IF op.f = "Incr" THEN n + op.val ELSE op.val

\* the runtime has not stopped the program
Alive == \A e \in events : e.ev # "fatal"
Returns(p, l) == /\ pc' = [pc EXCEPT ![p] = "done"]
                 /\ loc' = [loc EXCEPT ![p] = l]
DebugFrame == UNCHANGED <<serReg, maskReg, lazySerializers, input, call, fieldCache, mu,
                          encoderPool, encoders>>

\* Set, Incr or Store is entered: the check of the enabled flag and of topKey
WriteEnter(p, op) ==
    /\ Alive
    /\ pc[p] = "idle"
    /\ LET l == [op |-> op.f, args |-> op, after |-> DoneProcs, ret |-> "nil",
                 noop |-> TRUE, sub |-> 0, lock |-> 0, ptr |-> 0]
       IN  IF disabled(storage) THEN Returns(p, l)
           ELSE IF op.topKey = "" THEN Returns(p, [l EXCEPT !.ret = "error"])
           ELSE /\ pc' = [pc EXCEPT ![p] = "LoadOrStoreSub"]
                /\ loc' = [loc EXCEPT ![p] = [l EXCEPT !.noop = FALSE]]
    /\ UNCHANGED <<storage, events>>
    /\ DebugFrame

\* actual, _ := d.top.LoadOrStore(topKey, make(map[string]any))
LoadOrStoreSub(p) ==
    /\ Alive
    /\ pc[p] = "LoadOrStoreSub"
    /\ pc' = [pc EXCEPT ![p] = "lockOf"]
    /\ LET topKey == loc[p].args.topKey
       IN  IF topKey \in DOMAIN storage.top.subs
           THEN /\ loc' = [loc EXCEPT ![p].sub = storage.top.subs[topKey]]
                /\ UNCHANGED storage
           ELSE /\ loc' = [loc EXCEPT ![p].sub = Len(storage.maps) + 1]
                /\ storage' = [storage EXCEPT
                                   !.maps = Append(@, EmptyMap),
                                   !.writing = Append(@, 0),
                                   !.top.subs = Put(@, topKey, Len(storage.maps) + 1)]
    /\ UNCHANGED events
    /\ DebugFrame

\* lk, _ := d.top.LoadOrStore(lockKey{topKey}, new(sync.RWMutex))
lockOf(p) ==
    /\ Alive
    /\ pc[p] = "lockOf"
    /\ pc' = [pc EXCEPT ![p] = "LockSub"]
    /\ LET topKey == loc[p].args.topKey
       IN  IF topKey \in DOMAIN storage.top.locks
           THEN /\ loc' = [loc EXCEPT ![p].lock = storage.top.locks[topKey]]
                /\ UNCHANGED storage
           ELSE /\ loc' = [loc EXCEPT ![p].lock = Len(storage.lockHeld) + 1]
                /\ storage' = [storage EXCEPT
                                   !.lockHeld = Append(@, 0),
                                   !.top.locks = Put(@, topKey, Len(storage.lockHeld) + 1)]
    /\ UNCHANGED events
    /\ DebugFrame

\* l.Lock()
LockSub(p) ==
    /\ Alive
    /\ pc[p] = "LockSub"
    /\ storage.lockHeld[loc[p].lock] = 0
    /\ storage' = [storage EXCEPT !.lockHeld[loc[p].lock] = p]
    /\ pc' = [pc EXCEPT ![p] = "Assign"]
    /\ UNCHANGED <<loc, events>>
    /\ DebugFrame

\* under the lock: a counter found in the sub-map is updated in place and
\* the call returns; otherwise the assignment sub[subKey] = ... begins, for
\* Incr and Store with a counter made by new(int64)
Assign(p) ==
    /\ Alive
    /\ pc[p] = "Assign"
    /\ LET op == loc[p].args
           sub == storage.maps[loc[p].sub]
       IN  IF op.f # "Set" /\ HasCounter(sub, op.subKey)
           THEN /\ storage' = [storage EXCEPT
                                   !.counters[sub[op.subKey].a] = CounterFn(op, @),
                                   !.lockHeld[loc[p].lock] = 0]
                /\ Returns(p, [loc[p] EXCEPT !.ptr = sub[op.subKey].a])
           ELSE /\ pc' = [pc EXCEPT ![p] = "Assigned"]
                /\ IF op.f = "Set"
                   THEN /\ storage' = [storage EXCEPT !.writing[loc[p].sub] = p]
                        /\ UNCHANGED loc
                   ELSE /\ storage' = [storage EXCEPT !.writing[loc[p].sub] = p,
                                                      !.counters = Append(@, 0)]
                        /\ loc' = [loc EXCEPT ![p].ptr = Len(storage.counters) + 1]
    /\ UNCHANGED events
    /\ DebugFrame

\* the value the assignment in progress puts under the sub-key
Assignment(p) ==
    IF loc[p].args.f = "Set" THEN deepCopyValue(loc[p].args.val)
    ELSE PtrV("int64", loc[p].ptr)

\* the assignment is complete; fn(ptr) for a new counter; the deferred Unlock
Assigned(p) ==
    /\ Alive
    /\ pc[p] = "Assigned"
    /\ LET op == loc[p].args
           d1 == [storage EXCEPT !.maps[loc[p].sub] = Put(@, op.subKey, Assignment(p)),
                                 !.writing[loc[p].sub] = 0,
                                 !.lockHeld[loc[p].lock] = 0]
       IN  storage' = IF op.f = "Set" THEN d1
                      ELSE [d1 EXCEPT !.counters[loc[p].ptr] = CounterFn(op, @)]
    /\ pc' = [pc EXCEPT ![p] = "done"]
    /\ UNCHANGED <<loc, events>>
    /\ DebugFrame

\* what deepCopyMap(v.(map[string]any)) can yield for the sub-map at addr
Reads(addr) ==
    LET w == storage.writing[addr]
    IN  IF w = 0 THEN {[fatal |-> FALSE, race |-> FALSE, m |-> deepCopyMap(storage.maps[addr])]}
        ELSE {[fatal |-> FALSE, race |-> TRUE, m |-> deepCopyMap(storage.maps[addr])],
              [fatal |-> FALSE, race |-> TRUE,
               m |-> deepCopyMap(Put(storage.maps[addr], loc[w].args.subKey, Assignment(w)))],
              [fatal |-> TRUE, race |-> TRUE, m |-> EmptyMap]}

\* the entry of the snapshot for a top-level key: a sub-map whose only key
\* is "" is replaced by the value under it
Flatten(sub) == IF DOMAIN sub = {""} THEN sub[""] ELSE MapNode(sub)

\* the Range callback has read the sub-map of topKey: the goroutine goes on
\* with the snapshot out, or the runtime stops the program
AfterRead(p, r, out) ==
    /\ events' = events \cup
                     (IF r.race THEN {[ev |-> "race", by |-> p, op |-> loc[p].op]} ELSE {})
                     \cup (IF r.fatal THEN {[ev |-> "fatal", by |-> p]} ELSE {})
    /\ IF r.fatal
       THEN pc' = [pc EXCEPT ![p] = "fatal"] /\ UNCHANGED loc
       ELSE Returns(p, [loc[p] EXCEPT !.ret = out])

\* Peek() is entered: a disabled store answers with the cached snapshot
PeekEnter(p) ==
    /\ Alive
    /\ pc[p] = "idle"
    /\ LET l == [op |-> "Peek", after |-> DoneProcs, ret |-> storage.cacheMap,
                 cached |-> disabled(storage)]
       IN  IF disabled(storage) THEN Returns(p, l)
           ELSE /\ pc' = [pc EXCEPT ![p] = "PeekRange"]
                /\ loc' = [loc EXCEPT ![p] = l]
    /\ UNCHANGED <<storage, events>>
    /\ DebugFrame

\* d.top.Range of Peek, which leaves empty sub-maps out and takes no lock
PeekRange(p) ==
    /\ Alive
    /\ pc[p] = "PeekRange"
    /\ IF DebugTop \in DOMAIN storage.top.subs
       THEN \E r \in Reads(storage.top.subs[DebugTop]) :
               AfterRead(p, r, IF DOMAIN r.m = {} THEN EmptyMap
                               ELSE [x \in {DebugTop} |-> Flatten(r.m)])
       ELSE Returns(p, [loc[p] EXCEPT !.ret = EmptyMap]) /\ UNCHANGED events
    /\ UNCHANGED storage
    /\ DebugFrame

\* the sub-map of the top-level key as the store holds it, "none" without it
Held == IF DebugTop \in DOMAIN storage.top.subs
        THEN MapNode(storage.maps[storage.top.subs[DebugTop]]) ELSE [k |-> "none"]
Writers == {q \in Procs : pc[q] \in {"LoadOrStoreSub", "lockOf", "LockSub", "Assign", "Assigned"}}

\* ToMap() has taken d.mu: a disabled store answers with the cached
\* snapshot; an enabled one is disabled (d.enabled.Store(false))
ToMapLock(p) ==
    /\ Alive
    /\ pc[p] = "idle"
    /\ storage.mu = 0
    /\ LET l == [op |-> "ToMap", after |-> DoneProcs, ret |-> storage.cacheMap,
                 cached |-> disabled(storage), held |-> Held, writers |-> Writers]
       IN  IF disabled(storage) THEN Returns(p, l) /\ UNCHANGED storage
           ELSE /\ pc' = [pc EXCEPT ![p] = "ToMapRange"]
                /\ loc' = [loc EXCEPT ![p] = l]
                /\ storage' = [storage EXCEPT !.mu = p, !.enabled = FALSE]
    /\ UNCHANGED events
    /\ DebugFrame

\* the store after the snapshot out: d.top = sync.Map{}, the cache, Unlock
Flushed(d, out) ==
    [d EXCEPT !.top = [subs |-> EmptyMap, locks |-> EmptyMap], !.cacheMap = out, !.mu = 0]

\* d.top.Range of ToMap, which keeps empty sub-maps and holds d.mu only
ToMapRange(p) ==
    /\ Alive
    /\ pc[p] = "ToMapRange"
    /\ IF DebugTop \in DOMAIN storage.top.subs
       THEN \E r \in Reads(storage.top.subs[DebugTop]) :
               LET out == [x \in {DebugTop} |-> Flatten(r.m)]
               IN  /\ AfterRead(p, r, out)
                   /\ IF r.fatal THEN UNCHANGED storage ELSE storage' = Flushed(storage, out)
       ELSE /\ Returns(p, [loc[p] EXCEPT !.ret = EmptyMap])
            /\ storage' = Flushed(storage, EmptyMap)
            /\ UNCHANGED events
    /\ DebugFrame

DebugInit == ThreadsInit /\ RegistriesInit /\ ProgramIdle
DebugNext ==
    \E p \in Procs :
        \/ \E op \in DebugWrites : WriteEnter(p, op)
        \/ LoadOrStoreSub(p)
        \/ lockOf(p)
        \/ LockSub(p)
        \/ Assign(p)
        \/ Assigned(p)
        \/ PeekEnter(p)
        \/ PeekRange(p)
        \/ ToMapLock(p)
        \/ ToMapRange(p)
DebugSpec == DebugInit /\ [][DebugNext]_vars

----------------------------------------------------------------------------
(* Claims about the debug store                                            *)

Quiet == \A p \in Procs : pc[p] \in {"idle", "done"}
Wrote(p, f, sk) ==
    /\ loc[p].op = f
    /\ ~loc[p].noop
    /\ loc[p].args.subKey = sk
Incrs(sk) == {p \in Procs : Wrote(p, "Incr", sk)}
Sets(sk) == {p \in Procs : Wrote(p, "Set", sk)}
OnlyIncrAndSet == \A p \in Procs : loc[p].op \in {"none", "Incr", "Set"}
Overlap(p, q) == p # q /\ p \notin loc[q].after /\ q \notin loc[p].after

RECURSIVE SumDeltas(_)
SumDeltas(S) ==
    IF S = {} THEN 0
    ELSE LET p == CHOOSE x \in S : TRUE IN loc[p].args.val + SumDeltas(S \ {p})

\* the counters allocated for the sub-key, and the value a reader finds
\* behind the pointer that Peek reports for it
CounterOf(sk) == Held.m[sk].a
CounterRead(sk) == storage.counters[CounterOf(sk)]
SumHolds(sk) ==
    /\ Held.k = "map"
    /\ HasCounter(Held.m, sk)
    /\ CounterRead(sk) = SumDeltas(Incrs(sk))
    /\ Len(storage.counters) = 1

Stored(q) ==
    /\ loc[q].op \in {"Set", "Incr", "Store"}
    /\ ~loc[q].noop
    /\ Finished(q)
Flushes(p) == loc[p].op = "ToMap" /\ ~loc[p].cached /\ Finished(p)
SnapHasKey(out, sk) ==
    /\ DebugTop \in DOMAIN out
    /\ IF out[DebugTop].k = "map" THEN sk \in DOMAIN out[DebugTop].m ELSE sk = ""
SnapValue(out, sk) == IF out[DebugTop].k = "map" THEN out[DebugTop].m[sk] ELSE out[DebugTop]
WrittenBy(q, v) ==
    IF loc[q].op = "Set" THEN v = loc[q].args.val
    ELSE v.k = "ptr" /\ storage.counters[v.a] = CounterFn(loc[q].args, 0)
OnlyWriter(q) ==
    \A r \in Procs \ {q} :
        loc[r].op \in {"Set", "Incr", "Store"} => loc[r].args.subKey # loc[q].args.subKey

C23_NoSubMapReadDuringWrite ==
    \A e \in events : e.ev # "race"

----------------------------------------------------------------------------
(* Claims about the name a tag gives a field                               *)

NHolderOk == input.fam = "nholder" /\ call.st = "ok"
\* the first segment of the tag is a key=value option
HasEquals(seg) == seg \in DOMAIN SegTable
\* the name the first segment stands for: itself when it is not empty and
\* has no =, else the declared name of the field
NameOfTag(tag) == IF tag[1] # "" /\ ~HasEquals(tag[1]) THEN tag[1] ELSE "F"

\* C24: the first comma-delimited segment of the tag is the emitted name
\* only when it is not empty and contains no =; for an empty tag, an empty
\* first segment (",omitempty") or a key=value first segment the emitted
\* name is the declared field name.
C24_NameIsFirstSegmentOrFieldName ==
    NHolderOk => Keys \ {"before", "after"} \subseteq {NameOfTag(input.tag)}

----------------------------------------------------------------------------
(* Claims about inline fields                                              *)

\* what the value of F resolves to when it is encoded on its own
Resolved ==
    encodeReflect(Ctx(input), [vis |-> {}, marks |-> {}, reg |-> serReg, lazy |-> lazySerializers,
                               calls |-> {}],
                  FV, input.root = "pointer", MaxDepth).out
\* every entry of the map is an entry of the parent, which has no key f
Spliced(r) ==
    /\ \A key \in DOMAIN r.m : key \in Keys /\ call.out.m[key] = r.m[key]
    /\ "f" \notin Keys

----------------------------------------------------------------------------
(* Claims about waiting on the locks                                       *)

\* goroutine p, about to ask for the structInfo of the cached type rt,
\* cannot take the read lock: the write lock is held by a goroutine that
\* builds the structInfo of a type not yet in the cache
BlockedByBuilder(p, rt) ==
    /\ pc[p] = "idle"
    /\ rt \in DOMAIN fieldCache
    /\ mu.fieldCache # 0
    /\ loc[mu.fieldCache].rt \notin DOMAIN fieldCache

\* C26: a caller asking for the StructInfo of an already-cached type is
\* never blocked by another caller that is building the StructInfo of a
\* not-yet-cached type.
C26_CachedLookupNeverBlocked ==
    \A p \in Procs : \A rt \in CacheTypes : ~BlockedByBuilder(p, rt)

----------------------------------------------------------------------------
(* Claims about lookups of lazy serializers                                *)

\* C27: a lazily registered serializer name that is never removed is found
\* by every lookup, under any interleaving of concurrent first lookups: no
\* lookup of it returns found = false.
C27_LazyNameAlwaysFound ==
    \A p \in Lookups("lazy1") : Finished(p) => loc[p].ok

\* C28: the promotion of a lazy serializer never replaces an eager
\* registration: once RegisterSerializer(name, f) has returned, and as long
\* as no other RegisterSerializer call is made for the name, the registry
\* holds f and every later lookup returns f, also when a first lookup of
\* the lazy entry of the same name is in progress.
C28_PromotionKeepsEagerRegistration ==
    \A r \in Procs :
        (Registrars("ser", "currency") = {r} /\ Finished(r))
            => /\ "currency" \in DOMAIN serReg
               /\ serReg["currency"] = loc[r].fn
               /\ \A p \in Lookups("currency") :
                     (r \in loc[p].after /\ Finished(p)) => loc[p].ok /\ loc[p].fn = loc[r].fn

----------------------------------------------------------------------------
(* Claims about nil pointers and termination                               *)

\* C29: encoding a tagged field never invokes ShouldLog or MarshalLog on a
\* nil pointer: a nil-pointer field, with or without omitempty, resolves to
\* null and is left out without a panic, also when the methods have value
\* receivers.
C29_NilPointerFieldLeftOut ==
    (input.fam = "holder" /\ Tagged /\ ~Dashed /\ IsNilPtr(FV) /\ Done)
        => /\ call.st = "ok"
           /\ "f" \notin Keys
           /\ ~Called("ShouldLog") /\ ~Called("MarshalLog")

\* C30: an encode call terminates on every finite input without any depth
\* limit, also on a graph whose cycle passes through no pointer (a map or
\* a slice that contains itself through an interface-typed element).
C30_EncodeTerminates ==
    call.st # "overflow"

====
